---- MODULE Spec2Model ----
(***************************************************************************)
(* Verification model of the SQL guardrail (src/core/guardrails.py) and    *)
(* the query router (src/services/query_router.py) of CircularQuery.       *)
(*                                                                         *)
(* Text of a statement.  A Python str is modelled as a sequence of         *)
(* symbols.  A symbol is                                                   *)
(* either one character (" ", "\n", ";", "(", ")", "x", "_", a digit, and  *)
(* the backtick, written "BQ" since the character cannot appear in a       *)
(* module) or an indivisible run of characters: a keyword in one letter    *)
(* case ("SELECT", "select", "DROP", ...) or a comment marker ("--",       *)
(* "/*", "*/").  The str a sequence stands for is the concatenation of its *)
(* symbols.  Keyword symbols consist of word characters only, so a keyword *)
(* next to "x", "_", a digit or another keyword is part of a longer word   *)
(* (no \b between them), exactly as in the character string.  No symbol    *)
(* contains another keyword as a proper substring and no two adjacent      *)
(* symbols spell one across their border, so the regular expressions of    *)
(* the source match the symbol sequence exactly where they match the       *)
(* character string.                                                       *)
(***************************************************************************)
EXTENDS Integers, Sequences, FiniteSets, TLC

VARIABLES
  sql, default_limit, pc, verdict, again,   \* a call of sanitize_sql
  question, router, routed, rpc,            \* a call of route_question
  name, valid, vpc,                         \* a call of validate_table_name
  tcall, tpc, tloc, dicts, tres,            \* calls on concurrent threads
  llm_question, schema, response, lpc,      \* a call of get_sql_query
  posted, content, guard, ret,
  confidence_threshold, agentic, apc,       \* a call of should_use_agentic
  bot_token, upload_args, calls, replies,   \* a call of upload_file
  upc, uploaded,
  sessions, objs, log, got,                 \* the global session_manager
  mcall, mpc, mref,                         \* its calls on concurrent threads
  data, page_number, rows_per_page,         \* a page of query results
  page, info, ppc

vars ==
  <<sql, default_limit, pc, verdict, again, question, router, routed, rpc,
    name, valid, vpc, tcall, tpc, tloc, dicts, tres,
    llm_question, schema, response, lpc, posted, content, guard, ret,
    confidence_threshold, agentic, apc,
    bot_token, upload_args, calls, replies, upc, uploaded,
    sessions, objs, log, got, mcall, mpc, mref,
    data, page_number, rows_per_page, page, info, ppc>>

(***************************************************************************)
(* Character classes of Python's re module and of str.strip().             *)
(***************************************************************************)
Whitespace == {" ", "\n"}

Digits == <<"0", "1", "2", "3", "4", "5", "6", "7", "8", "9">>

DigitSet == {Digits[i] : i \in 1..10}

\* Symbols made of non-word characters (re's \W): everything else is \w.
NonWord == Whitespace \cup {";", "BQ", "(", ")", "--", "/*", "*/"}

IsSpace(c) == c \in Whitespace

IsDigit(c) == c \in DigitSet

IsWord(c) == c \notin NonWord

\* The denylist of the guardrail, in the order of the source.
FORBIDDEN_WORDS ==
  <<"INSERT", "UPDATE", "DELETE", "DROP", "ALTER", "TRUNCATE", "ATTACH", "DETACH", "PRAGMA">>

ForbiddenSet == {FORBIDDEN_WORDS[i] : i \in 1..Len(FORBIDDEN_WORDS)}

\* Lower-case spellings of the keywords, paired with their upper-case form.
LowerUpper ==
  [insert |-> "INSERT", update |-> "UPDATE", delete |-> "DELETE", drop |-> "DROP",
   alter |-> "ALTER", truncate |-> "TRUNCATE", attach |-> "ATTACH", detach |-> "DETACH",
   pragma |-> "PRAGMA", select |-> "SELECT", with |-> "WITH", as |-> "AS",
   limit |-> "LIMIT", sql |-> "SQL"]

\* re.IGNORECASE: two symbols match when their upper-case forms are equal.
LowerCase == DOMAIN LowerUpper

Upper(c) == IF c \in LowerCase THEN LowerUpper[c] ELSE c

(***************************************************************************)
(* str.strip / str.rstrip, with the set of characters to remove.           *)
(***************************************************************************)
RECURSIVE lstrip(_, _)
lstrip(s, chars) ==
  IF s # <<>> /\ Head(s) \in chars THEN lstrip(Tail(s), chars) ELSE s

RECURSIVE rstrip(_, _)
rstrip(s, chars) ==
  IF s # <<>> /\ s[Len(s)] \in chars THEN rstrip(SubSeq(s, 1, Len(s) - 1), chars) ELSE s

strip(s, chars) == rstrip(lstrip(s, chars), chars)

SetMax(S) == CHOOSE m \in S : \A k \in S : k <= m

\* The positions q >= p such that s[p..q-1] is whitespace only (what \s* can skip).
AfterSpaces(s, p) ==
  {q \in p..(Len(s) + 1) : \A k \in p..(q - 1) : IsSpace(s[k])}

(***************************************************************************)
(* re.sub(r"^sql\s*\n", "", s, flags=re.IGNORECASE): a leading "sql",      *)
(* then whitespace up to and including a newline, is removed.  \s* is      *)
(* greedy, so the match ends at the last newline of the whitespace run.    *)
(***************************************************************************)
sub_sql_prefix(s) ==
  IF s # <<>> /\ Upper(s[1]) = "SQL"
  THEN LET ends == {q \in AfterSpaces(s, 2) : q <= Len(s) /\ s[q] = "\n"}
       IN  IF ends = {} THEN s ELSE SubSeq(s, SetMax(ends) + 1, Len(s))
  ELSE s

(***************************************************************************)
(* ALLOWED_SELECT, written here with blanks between its parts:             *)
(*     ^ \s* ( WITH \s+ .+? AS \s* \( .*? \) \s* )* SELECT \b              *)
(* with IGNORECASE | DOTALL.  Whether match() succeeds does not depend on  *)
(* lazy or greedy choice (the engine backtracks), only on whether some     *)
(* split of the text fits; "." matches every symbol, newline included.     *)
(***************************************************************************)
\* One pass of the group WITH ... AS ( ... ) from position p: the positions
\* where it can end.
CteGroupEnds(s, p) ==
  IF p + 1 <= Len(s) /\ Upper(s[p]) = "WITH" /\ IsSpace(s[p + 1])
  THEN UNION {
         UNION { UNION { AfterSpaces(s, r + 1)
                         : r \in {k \in (l + 1)..Len(s) : s[k] = ")"} }
                 : l \in {k \in AfterSpaces(s, a + 1) : k <= Len(s) /\ s[k] = "("} }
         : a \in {k \in (p + 3)..Len(s) : Upper(s[k]) = "AS"} }
  ELSE {}

\* The positions reachable by zero or more passes of the group.
RECURSIVE CteStar(_, _)
CteStar(s, P) ==
  LET N == P \cup UNION {CteGroupEnds(s, p) : p \in P}
  IN  IF N = P THEN P ELSE CteStar(s, N)

\* SELECT\b at position p.
SelectAt(s, p) ==
  /\ p <= Len(s)
  /\ Upper(s[p]) = "SELECT"
  /\ (p = Len(s) \/ ~IsWord(s[p + 1]))

ALLOWED_SELECT(s) ==
  \E p \in CteStar(s, AfterSpaces(s, 1)) : SelectAt(s, p)

(***************************************************************************)
(* forbidden = r"\b(INSERT|...|PRAGMA)\b", searched with IGNORECASE over   *)
(* the whole text.                                                         *)
(***************************************************************************)
WordStartsAt(s, i) == i = 1 \/ ~IsWord(s[i - 1])

WordEndsAt(s, i) == i = Len(s) \/ ~IsWord(s[i + 1])

\* Variant: the scan stops at the first semicolon (first statement only).
forbidden_first_statement_only(s) ==
  \E i \in 1..Len(s) :
     /\ Upper(s[i]) \in ForbiddenSet
     /\ WordStartsAt(s, i)
     /\ WordEndsAt(s, i)
     /\ \A k \in 1..(i - 1) : s[k] # ";"

\* Variant: the scan without re.IGNORECASE.
forbidden_case_sensitive(s) ==
  \E i \in 1..Len(s) :
     /\ s[i] \in ForbiddenSet
     /\ WordStartsAt(s, i)
     /\ WordEndsAt(s, i)

forbidden(s) ==
  \E i \in 1..Len(s) :
     /\ Upper(s[i]) \in ForbiddenSet
     /\ WordStartsAt(s, i)
     /\ WordEndsAt(s, i)

(***************************************************************************)
(* re.search(r"\bLIMIT\b\s+\d+", s, flags=re.IGNORECASE).                  *)
(***************************************************************************)
\* The match of \bLIMIT\b\s+\d at position i: the position of the first digit,
\* or 0 when there is no match at i.
LimitDigitsAt(s, i) ==
  IF /\ Upper(s[i]) = "LIMIT"
     /\ WordStartsAt(s, i)
     /\ i + 2 <= Len(s)
     /\ IsSpace(s[i + 1])
  THEN LET d == SetMax(AfterSpaces(s, i + 1))
       IN  IF d <= Len(s) /\ IsDigit(s[d]) THEN d ELSE 0
  ELSE 0

\* Variant: the pattern is only \bLIMIT\b, without the number.
has_limit_keyword_only(s) ==
  \E i \in 1..Len(s) : Upper(s[i]) = "LIMIT" /\ WordStartsAt(s, i) /\ WordEndsAt(s, i)

\* Variant: the search without re.IGNORECASE.
has_limit_case_sensitive(s) ==
  \E i \in 1..Len(s) : s[i] = "LIMIT" /\ LimitDigitsAt(s, i) # 0

has_limit(s) == \E i \in 1..Len(s) : LimitDigitsAt(s, i) # 0

(***************************************************************************)
(* f"{default_limit}": the decimal digits of a non-negative integer.       *)
(***************************************************************************)
RECURSIVE format_int(_)
format_int(n) ==
  IF n < 10 THEN <<Digits[n + 1]>>
  ELSE format_int(n \div 10) \o <<Digits[(n % 10) + 1]>>

\* f"{s} LIMIT {default_limit}"
append_limit(s, n) == s \o <<" ", "LIMIT", " ">> \o format_int(n)

(***************************************************************************)
(* sanitize_sql.  An argument is a record: kind "none" (None), "int" (a    *)
(* number, its value in num) or "str" (a str, its symbols in text).  The   *)
(* result is the tuple (ok, sql_out, reason) as a record; the empty str is *)
(* the empty sequence.                                                     *)
(***************************************************************************)
PyNone == [kind |-> "none", text |-> <<>>, num |-> 0]

PyInt(n) == [kind |-> "int", text |-> <<>>, num |-> n]

PyStr(t) == [kind |-> "str", text |-> t, num |-> 0]

\* Python's "not sql": None, 0 and the empty str are falsy.
Falsy(v) ==
  \/ v.kind = "none"
  \/ v.kind = "int" /\ v.num = 0
  \/ v.kind = "str" /\ v.text = <<>>

Result(ok, out, reason) == [ok |-> ok, sql |-> out, reason |-> reason]

\* Lines 16-18 as a variant that removes one trailing semicolon at most.
strip_artifacts_one_terminator(t) ==
  LET s1 == strip(strip(t, Whitespace), {"BQ"})
      s2 == strip(sub_sql_prefix(s1), Whitespace)
      s3 == IF s2 # <<>> /\ s2[Len(s2)] = ";" THEN SubSeq(s2, 1, Len(s2) - 1) ELSE s2
  IN  strip(s3, Whitespace)

\* Lines 16-18: the text the checks run on.
strip_artifacts(t) ==
  LET s1 == strip(strip(t, Whitespace), {"BQ"})
      s2 == strip(sub_sql_prefix(s1), Whitespace)
  IN  strip(rstrip(s2, {";"}), Whitespace)

\* Line 12 as a variant that tests truthiness only, without isinstance.
empty_sql_by_truthiness_only(v) == Falsy(v)

\* Line 12: "not sql or not isinstance(sql, str)".
empty_sql(v) == Falsy(v) \/ v.kind # "str"

\* Line 16 calls sql.strip(): a value that is no str and got past line 12
\* has no such method, and the call ends in an AttributeError.
raises(v) == ~empty_sql(v) /\ v.kind # "str"

\* sanitize_sql as a variant whose denylist rejection hands the text back.
sanitize_sql_echoing_rejected(v, limit) ==
  IF empty_sql(v)
  THEN Result(FALSE, <<>>, "empty_sql")
  ELSE LET s == strip_artifacts(v.text)
       IN  IF ~ALLOWED_SELECT(s)
           THEN Result(FALSE, <<>>, "non_select_or_unsafe")
           ELSE IF forbidden(s)
           THEN Result(FALSE, s, "forbidden_keyword")
           ELSE IF ~has_limit(s)
           THEN Result(TRUE, append_limit(s, limit), "")
           ELSE Result(TRUE, s, "")

sanitize_sql(v, limit) ==
  IF empty_sql(v)
  THEN Result(FALSE, <<>>, "empty_sql")
  ELSE LET s == strip_artifacts(v.text)
       IN  IF ~ALLOWED_SELECT(s)
           THEN Result(FALSE, <<>>, "non_select_or_unsafe")
           ELSE IF forbidden(s)
           THEN Result(FALSE, <<>>, "forbidden_keyword")
           ELSE IF ~has_limit(s)
           THEN Result(TRUE, append_limit(s, limit), "")
           ELSE Result(TRUE, s, "")

(***************************************************************************)
(* Candidates.  A candidate text is lead \o head \o tail \o trail: the     *)
(* opening of a statement and up to MaxTail further pieces, between a      *)
(* leading and a trailing artifact.                                        *)
(***************************************************************************)
MaxTail == 2

LowCap == 7

DEFAULT_LIMIT == 500

Caps == {LowCap, DEFAULT_LIMIT}

\* The artifacts around a statement, as pairs <<lead, trail>>: nothing,
\* blanks, statement terminators, a block comment, a code fence with its
\* language tag, a bare tag line.
Wrappers ==
  { << <<>>, <<>> >>,
    << <<" ">>, <<" ">> >>,
    << <<>>, <<";">> >>,
    << <<>>, <<";", ";">> >>,
    << <<>>, <<" ", ";", " ", ";">> >>,
    << <<>>, <<";", "BQ", ";">> >>,
    << <<>>, <<" ", "/*", " ", "x", " ", "*/">> >>,
    << <<"BQ", "BQ", "BQ", "sql", "\n">>, <<"\n", "BQ", "BQ", "BQ">> >>,
    << <<"BQ", "BQ", "BQ", "sql", "\n">>, <<";", "\n", "BQ", "BQ", "BQ">> >>,
    << <<" ", "SQL", " ", "\n", "\n">>, <<" ">> >> }

CteSelect ==
  <<"WITH", " ", "x", " ", "AS", " ", "(", "SELECT", " ", "x", ")", " ", "SELECT">>

CteReplaceSelect ==
  <<"with", " ", "x", " ", "as", " ", "(", "SELECT", " ", "x", ")", " ",
    "REPLACE", " ", "x", " ", "(", "x", ")", " ", "SELECT">>

Heads ==
  { <<>>, <<"SELECT">>, <<"select">>, CteSelect, CteReplaceSelect, <<"CREATE">>, <<"DROP">> }

Pieces ==
  { <<" ", "x">>,
    <<"0", "0">>,
    <<" ", "LIMIT">>,
    <<" ", "LIMIT", " ", "5">>,
    <<" ", "limit", "\n", "9">>,
    <<";", " ", "drop">>,
    <<" ", "--", " ", "x">> }

RECURSIVE TailsOf(_)
TailsOf(n) ==
  IF n = 0 THEN {<<>>}
  ELSE LET T == TailsOf(n - 1)
       IN  T \cup {t \o p : t \in T, p \in Pieces}

Composed ==
  {w[1] \o h \o t \o w[2] : w \in Wrappers, h \in Heads, t \in TailsOf(MaxTail)}

\* A second statement after a complete SELECT, one per denylisted verb and
\* letter case.
Verbs == ForbiddenSet \cup {w \in LowerCase : LowerUpper[w] \in ForbiddenSet}

Smuggled ==
  {<<"SELECT", " ", "x">> \o sep \o <<v, " ", "x">>
     : sep \in {<<" ">>, <<";", " ">>, <<" ", "--", " ">>}, v \in Verbs}

Inputs ==
  {PyStr(t) : t \in Composed \cup Smuggled} \cup {PyNone, PyInt(0), PyInt(123)}

NoResult == Result(FALSE, <<>>, "pending")

(***************************************************************************)
(* The query router (src/services/query_router.py).  A question is a       *)
(* string of characters; SubSeq(s, i, i) is its i-th character.            *)
(***************************************************************************)
LowerLetters == "abcdefghijklmnopqrstuvwxyz"

UpperLetters == "ABCDEFGHIJKLMNOPQRSTUVWXYZ"

char(s, i) == SubSeq(s, i, i)

CharsOf(s) == {char(s, i) : i \in 1..Len(s)}

\* What str.lower() does to each upper-case letter.
ToLower ==
  [c \in CharsOf(UpperLetters) |->
     char(LowerLetters, CHOOSE i \in 1..Len(UpperLetters) : char(UpperLetters, i) = c)]

RECURSIVE lower_from(_, _)
lower_from(s, i) ==
  IF i > Len(s) THEN ""
  ELSE LET c == char(s, i)
       IN  (IF c \in DOMAIN ToLower THEN ToLower[c] ELSE c) \o lower_from(s, i + 1)

\* str.lower()
lower(s) == lower_from(s, 1)

\* The characters str.strip(), str.split() and the class \s take as blank.
SpaceChars == {" ", "\t", "\n"}

\* The characters of the class \w.
WordChars == CharsOf(LowerLetters) \cup CharsOf(UpperLetters) \cup DigitSet \cup {"_"}

RECURSIVE run_end(_, _, _)
\* The position after the longest run of characters of cls that starts at p.
run_end(s, p, cls) ==
  IF p <= Len(s) /\ char(s, p) \in cls THEN run_end(s, p + 1, cls) ELSE p

RECURSIVE run_start(_, _, _)
\* The position before the longest run of characters of cls that ends at p.
run_start(s, p, cls) ==
  IF p >= 1 /\ char(s, p) \in cls THEN run_start(s, p - 1, cls) ELSE p

\* str.strip() without argument
str_strip(s) ==
  LET a == run_end(s, 1, SpaceChars)
      b == run_start(s, Len(s), SpaceChars)
  IN  IF a > b THEN "" ELSE SubSeq(s, a, b)

RECURSIVE split_from(_, _, _)
split_from(s, p, nonblank) ==
  LET a == run_end(s, p, SpaceChars)
      b == run_end(s, a, nonblank)
  IN  IF a > Len(s) THEN <<>> ELSE <<SubSeq(s, a, b - 1)>> \o split_from(s, b, nonblank)

\* str.split() without argument: the maximal runs of characters that are
\* not blank, in order.
split(s) == split_from(s, 1, CharsOf(s) \ SpaceChars)

(***************************************************************************)
(* Regular expressions.  A pattern is a tree: a literal, a sequence, an    *)
(* alternation, an optional part, a class repeated once or more, or the    *)
(* word boundary \b.  match_ends(r, s, P) is the set of positions where a  *)
(* match of r that starts at a position of P can end; re.search finds a    *)
(* match when some start has an end.  None of the router's patterns has a  *)
(* back-reference or a look-around, so which of the possible matches the   *)
(* engine prefers does not change whether one exists.                      *)
(***************************************************************************)
lit(w) == [t |-> "lit", w |-> lower(w)]

cat(rs) == [t |-> "cat", rs |-> rs]

alt(rs) == [t |-> "alt", rs |-> rs]

opt(r) == [t |-> "opt", r |-> r]

plus(cls) == [t |-> "plus", cls |-> cls]

\* \b
B == [t |-> "b"]

\* \s+
S1 == plus(SpaceChars)

\* \d+
D1 == plus(DigitSet)

\* \w+
W1 == plus(WordChars)

\* (?:w1|w2|...)
words(ws) == alt([i \in DOMAIN ws |-> lit(ws[i])])

\* \bw\s+(?:w1|w2|...)
word_then(w, ws) == cat(<<B, lit(w), S1, words(ws)>>)

is_word_at(s, p) == p >= 1 /\ p <= Len(s) /\ char(s, p) \in WordChars

\* The text a search runs on, in lower case, with the positions where \b
\* matches: between a word character and a character that is none, or
\* the end of the text.
subject(s) ==
  LET folded == lower(s)
  IN  [ text |-> folded,
        boundaries |-> {p \in 1..(Len(s) + 1) : is_word_at(folded, p - 1) # is_word_at(folded, p)} ]

RECURSIVE match_ends(_, _, _)
RECURSIVE cat_ends(_, _, _, _)
match_ends(r, u, P) ==
  CASE r.t = "lit" ->
         {p + Len(r.w) : p \in {q \in P : /\ q + Len(r.w) - 1 <= Len(u.text)
                                          /\ SubSeq(u.text, q, q + Len(r.w) - 1) = r.w}}
    [] r.t = "cat" -> cat_ends(r.rs, 1, u, P)
    [] r.t = "alt" -> UNION {match_ends(r.rs[i], u, P) : i \in DOMAIN r.rs}
    [] r.t = "opt" -> P \cup match_ends(r.r, u, P)
    [] r.t = "plus" -> UNION {(p + 1)..run_end(u.text, p, r.cls) : p \in P}
    [] r.t = "b" -> P \cap u.boundaries

cat_ends(rs, i, u, P) ==
  IF i > Len(rs) \/ P = {} THEN P
  ELSE cat_ends(rs, i + 1, u, match_ends(rs[i], u, P))

\* Whether the pattern matches somewhere in the subject.
matches(pattern, u) == match_ends(pattern, u, 1..(Len(u.text) + 1)) # {}

\* re.search(pattern, s, re.IGNORECASE): the literals are kept in lower
\* case and compared with the text in lower case.
re_search(pattern, s) == matches(pattern, subject(s))

(***************************************************************************)
(* QueryRouter.__init__: the pattern lists and keyword sets, each pattern  *)
(* under the regular expression of the source it translates.               *)
(***************************************************************************)
simple_patterns ==
  << \* \b(show|list|display|get)\s+(?:me\s+)?(the\s+)?
     cat(<<B, words(<<"show", "list", "display", "get">>), S1,
           opt(cat(<<lit("me"), S1>>)), opt(cat(<<lit("the"), S1>>))>>),
     \* \btop\s+\d+
     cat(<<B, lit("top"), S1, D1>>),
     \* \bbottom\s+\d+
     cat(<<B, lit("bottom"), S1, D1>>),
     \* \bfirst\s+\d+
     cat(<<B, lit("first"), S1, D1>>),
     \* \blast\s+\d+
     cat(<<B, lit("last"), S1, D1>>),
     \* \bhow\s+many
     cat(<<B, lit("how"), S1, lit("many")>>),
     \* \bcount\s+(?:of\s+)?
     cat(<<B, lit("count"), S1, opt(cat(<<lit("of"), S1>>))>>),
     \* \bsum\s+(?:of\s+)?
     cat(<<B, lit("sum"), S1, opt(cat(<<lit("of"), S1>>))>>),
     \* \baverage\s+(?:of\s+)?
     cat(<<B, lit("average"), S1, opt(cat(<<lit("of"), S1>>))>>),
     \* \bmax(?:imum)?\s+
     cat(<<B, lit("max"), opt(lit("imum")), S1>>),
     \* \bmin(?:imum)?\s+
     cat(<<B, lit("min"), opt(lit("imum")), S1>>),
     \* \bwhat\s+(?:is|are)\s+the\s+(?:name|title|value|amount)
     cat(<<B, lit("what"), S1, words(<<"is", "are">>), S1, lit("the"), S1,
           words(<<"name", "title", "value", "amount">>)>>),
     \* \bwhich\s+(?:driver|team|customer|product|user)
     word_then("which", <<"driver", "team", "customer", "product", "user">>),
     \* \bwho\s+(?:won|has|is)
     word_then("who", <<"won", "has", "is">>),
     \* \bwhen\s+(?:did|was)
     word_then("when", <<"did", "was">>),
     \* \bwhere\s+(?:is|are|did)
     word_then("where", <<"is", "are", "did">>),
     \* \btotal\s+(?:sales|revenue|orders|count)
     word_then("total", <<"sales", "revenue", "orders", "count">>),
     \* \ball\s+(?:customers|products|orders|users)
     word_then("all", <<"customers", "products", "orders", "users">>),
     \* \bcompare\s+\w+\s+(?:and|vs|versus)\s+\w+
     cat(<<B, lit("compare"), S1, W1, S1, words(<<"and", "vs", "versus">>), S1, W1>>) >>

complex_patterns ==
  << \* \bwhy\s+(?:did|is|are|has|have)
     word_then("why", <<"did", "is", "are", "has", "have">>),
     \* \bwhat\s+(?:caused|drove|contributed|led\s+to)
     cat(<<B, lit("what"), S1,
           alt(<<lit("caused"), lit("drove"), lit("contributed"),
                 cat(<<lit("led"), S1, lit("to")>>)>>)>>),
     \* \bwhat\s+(?:factors|reasons|causes)
     word_then("what", <<"factors", "reasons", "causes">>),
     \* \b(?:analyze|analyse|investigate|examine|explore)\b
     cat(<<B, words(<<"analyze", "analyse", "investigate", "examine", "explore">>), B>>),
     \* \bwhat\s+patterns?\b
     cat(<<B, lit("what"), S1, lit("pattern"), opt(lit("s")), B>>),
     \* \bwhat\s+trends?\b
     cat(<<B, lit("what"), S1, lit("trend"), opt(lit("s")), B>>),
     \* \bwhat\s+insights?\b
     cat(<<B, lit("what"), S1, lit("insight"), opt(lit("s")), B>>),
     \* \bwhat\s+should\s+I\s+know
     cat(<<B, lit("what"), S1, lit("should"), S1, lit("I"), S1, lit("know")>>),
     \* \btell\s+me\s+about\s+(?:the\s+)?(?:data|dataset|performance|business)
     cat(<<B, lit("tell"), S1, lit("me"), S1, lit("about"), S1, opt(cat(<<lit("the"), S1>>)),
           words(<<"data", "dataset", "performance", "business">>)>>),
     \* \bexplain\s+(?:the\s+)?(?:data|dataset|trends|patterns)
     cat(<<B, lit("explain"), S1, opt(cat(<<lit("the"), S1>>)),
           words(<<"data", "dataset", "trends", "patterns">>)>>),
     \* \bhow\s+(?:is|are)\s+(?:we|our|the\s+business|performance)
     cat(<<B, lit("how"), S1, words(<<"is", "are">>), S1,
           alt(<<lit("we"), lit("our"), cat(<<lit("the"), S1, lit("business")>>),
                 lit("performance")>>)>>),
     \* \bwhat\s+(?:drives|affects|influences|impacts)
     word_then("what", <<"drives", "affects", "influences", "impacts">>),
     \* \bhow\s+(?:can|should|do)\s+(?:we|I)\s+improve
     cat(<<B, lit("how"), S1, words(<<"can", "should", "do">>), S1, words(<<"we", "I">>), S1,
           lit("improve")>>),
     \* \boptimize|optimization
     alt(<<cat(<<B, lit("optimize")>>), lit("optimization")>>),
     \* \bstrategy|strategic
     alt(<<cat(<<B, lit("strategy")>>), lit("strategic")>>),
     \* \brelationship\s+between
     cat(<<B, lit("relationship"), S1, lit("between")>>),
     \* \bcorrelation\s+(?:between|with)
     word_then("correlation", <<"between", "with">>),
     \* \bimpact\s+of\s+\w+\s+on
     cat(<<B, lit("impact"), S1, lit("of"), S1, W1, S1, lit("on")>>),
     \* \b(?:predict|forecast|project)
     cat(<<B, words(<<"predict", "forecast", "project">>)>>),
     \* \bbetter\s+(?:than|performing)
     word_then("better", <<"than", "performing">>),
     \* \bworst\s+performing
     cat(<<B, lit("worst"), S1, lit("performing")>>),
     \* \bbest\s+performing
     cat(<<B, lit("best"), S1, lit("performing")>>),
     \* \bperformance\s+(?:analysis|comparison)
     word_then("performance", <<"analysis", "comparison">>),
     \* \bwhat\s+(?:else|other|more)
     word_then("what", <<"else", "other", "more">>),
     \* \banything\s+(?:else|interesting|unusual)
     word_then("anything", <<"else", "interesting", "unusual">>),
     \* \bsurprising|unexpected|anomal
     alt(<<cat(<<B, lit("surprising")>>), lit("unexpected"), lit("anomal")>>) >>

simple_keywords ==
  { "list", "show", "display", "count", "total", "sum", "average", "max", "min",
    "first", "last", "top", "bottom", "all", "latest", "recent", "name", "title" }

complex_keywords ==
  { "why", "analyze", "investigate", "pattern", "trend", "factor", "cause",
    "insight", "understand", "explain", "explore", "relationship", "impact",
    "performance", "optimize", "strategy", "improve", "predict", "forecast" }

\* The object QueryRouter() builds: its four attributes.
QueryRouter ==
  [ simple_patterns |-> simple_patterns,
    complex_patterns |-> complex_patterns,
    simple_keywords |-> simple_keywords,
    complex_keywords |-> complex_keywords ]

(***************************************************************************)
(* QueryRouter.route_question.  A confidence is counted in tenths: 9 is    *)
(* the float 0.9.                                                          *)
(***************************************************************************)
RECURSIVE pattern_score_from(_, _, _)
pattern_score_from(u, patterns, i) ==
  IF i > Len(patterns) THEN 0
  ELSE (IF matches(patterns[i], u) THEN 1 ELSE 0)
         + pattern_score_from(u, patterns, i + 1)

\* _calculate_pattern_score: one point for each pattern that re.search
\* finds in the question, every search on the same subject.
calculate_pattern_score(q, patterns) == pattern_score_from(subject(q), patterns, 1)

\* _calculate_keyword_score as a variant that counts the tokens of the
\* question that are keywords, a repeated token each time.
keyword_score_counting_tokens(q, keywords) ==
  LET question_words == split(q)
  IN  Cardinality({i \in DOMAIN question_words : question_words[i] \in keywords})

\* _calculate_keyword_score: len(set(question.split()) & keywords)
calculate_keyword_score(q, keywords) ==
  LET question_words == {split(q)[i] : i \in DOMAIN split(q)}
  IN  Cardinality(question_words \cap keywords)

\* Python's "w in s" for two strs: w occurs in s as a substring.
contains(s, w) ==
  \E p \in 1..(Len(s) - Len(w) + 1) : SubSeq(s, p, p + Len(w) - 1) = w

QuestionWords == {"why", "how", "what", "when", "where", "who"}

\* Lines 119-135: the local variables the decision reads.
routing_locals(self, q) ==
  LET question_lower == str_strip(lower(q))
  IN  [ total_simple_score |->
          calculate_pattern_score(question_lower, self.simple_patterns)
            + calculate_keyword_score(question_lower, self.simple_keywords),
        total_complex_score |->
          calculate_pattern_score(question_lower, self.complex_patterns)
            + calculate_keyword_score(question_lower, self.complex_keywords),
        question_length |-> Len(split(q)),
        has_question_words |-> \E word \in QuestionWords : contains(question_lower, word) ]

\* Lines 138-144: the dictionary a call creates.
new_metadata(l) ==
  [ simple_score |-> l.total_simple_score,
    complex_score |-> l.total_complex_score,
    question_length |-> l.question_length,
    confidence |-> 0,
    reasoning |-> "" ]

Decision(type, confidence, reasoning) ==
  [type |-> type, confidence |-> confidence, reasoning |-> reasoning]

\* The last branch as a variant that answers QueryType.AMBIGUOUS.
ambiguous_case_typed_ambiguous ==
  Decision("AMBIGUOUS", 5, "Ambiguous question - defaulting to simple")

\* The last branch as a variant with the confidence 0.4.
ambiguous_case_below_half ==
  Decision("SIMPLE", 4, "Ambiguous question - defaulting to simple")

\* Lines 178-182: the else branch.
ambiguous_case ==
  Decision("SIMPLE", 5, "Ambiguous question - defaulting to simple")

\* Lines 147-182: the first branch whose condition holds.
decision(l) ==
  IF l.total_simple_score >= 3 /\ l.total_complex_score <= 1
  THEN Decision("SIMPLE", 9, "Strong simple query patterns detected")
  ELSE IF l.total_complex_score >= 3 /\ l.total_simple_score <= 1
  THEN Decision("COMPLEX", 9, "Strong complex analysis patterns detected")
  ELSE IF l.question_length <= 5 /\ l.total_simple_score > 0
  THEN Decision("SIMPLE", 8, "Short question with simple patterns")
  ELSE IF l.question_length >= 10 /\ l.has_question_words
  THEN Decision("COMPLEX", 7, "Long analytical question")
  ELSE IF l.total_simple_score > l.total_complex_score
  THEN Decision("SIMPLE", 6, "Simple score higher than complex")
  ELSE IF l.total_complex_score > l.total_simple_score
  THEN Decision("COMPLEX", 6, "Complex score higher than simple")
  ELSE ambiguous_case

\* The dictionary as the taken branch leaves it.
decided_metadata(m, d) ==
  [m EXCEPT !.confidence = d.confidence, !.reasoning = d.reasoning]

Routed(type, metadata) == [type |-> type, metadata |-> metadata]

\* The tuple (QueryType, routing_metadata) a call returns.
route_question(self, q) ==
  LET l == routing_locals(self, q)
      d == decision(l)
  IN  Routed(d.type, decided_metadata(new_metadata(l), d))

(***************************************************************************)
(* Questions.  A question is up to MaxPhrases phrases joined by blanks,    *)
(* followed by a run of filler words that lengthens it past 5 or past 9    *)
(* tokens without adding a keyword, a pattern or an interrogative word.    *)
(***************************************************************************)
MaxPhrases == 2

Phrases ==
  {"show", "top 10", "total", "Why did", "analyze", "trend", "what", "whole", "data"}

Fillers == {"", " of in at by to", " of in at by to on up it so we"}

RECURSIVE CoresOf(_)
CoresOf(n) ==
  IF n = 0 THEN {""}
  ELSE LET C == CoresOf(n - 1)
       IN  C \cup {(IF c = "" THEN p ELSE c \o " " \o p) : c \in C, p \in Phrases}

\* The examples of the decision policy, a blank question, a question with
\* an upper-case keyword, a double blank and a tab, and one that ends in a
\* blank.
ExampleQuestions ==
  { "show top 10 customers",
    "why did revenue drop in Q3 and what factors contributed",
    "   ",
    " Total  total\ttrends? ",
    "show " }

Questions == {c \o f : c \in CoresOf(MaxPhrases), f \in Fillers} \cup ExampleQuestions

NoLocals ==
  [ total_simple_score |-> 0, total_complex_score |-> 0, question_length |-> 0,
    has_question_words |-> FALSE ]

NoRoute == Routed("PENDING", new_metadata(NoLocals))

(***************************************************************************)
(* The calls of route_question as a state machine: the global object       *)
(* query_router with its attributes, the question of the current call and  *)
(* the tuple the last call returned.                                       *)
(***************************************************************************)
sanitizeVars == <<sql, default_limit, pc, verdict, again>>

routerVars == <<question, router, routed, rpc>>

validatorVars == <<name, valid, vpc>>

threadVars == <<tcall, tpc, tloc, dicts, tres>>

SanitizeIdle ==
  /\ sql = PyNone
  /\ default_limit = DEFAULT_LIMIT
  /\ pc = "idle"
  /\ verdict = NoResult
  /\ again = NoResult

RouterIdle ==
  /\ question = ""
  /\ router = QueryRouter
  /\ routed = NoRoute
  /\ rpc = "idle"

ValidatorIdle ==
  /\ name = PyNone
  /\ valid = "unset"
  /\ vpc = "idle"

ThreadsIdle ==
  /\ tcall = <<>>
  /\ tpc = <<>>
  /\ tloc = <<>>
  /\ dicts = <<>>
  /\ tres = <<>>

(***************************************************************************)
(* The values of the services' variables before and between calls.         *)
(***************************************************************************)
\* A key that a dictionary does not hold.
PyAbsent == [kind |-> "absent", text |-> <<>>, num |-> 0]

\* The value of a call that has not returned.
PyPending == [kind |-> "pending", text |-> <<>>, num |-> 0]

\* The body of a response.  json is "invalid" when response.json() raises,
\* "list" when the document is no object; message tells what the key
\* "message" holds; content is the value of "content" in the message.
Body(json, message, cont) == [json |-> json, message |-> message, content |-> cont]

\* A response: what requests.post did ("network_error" when it raised), the
\* HTTP status as raise_for_status sees it, and the body.
Response(outcome, body) == [outcome |-> outcome, body |-> body]

NoBody == Body("none", "absent", PyAbsent)

NoResponse == Response("none", NoBody)

\* The tuple (use_agentic, explanation) of should_use_agentic.
Advice(use, explanation) == [use_agentic |-> use, explanation |-> explanation]

NoAdvice == Advice(FALSE, "pending")

\* An optional str: None, or a str with its text.
NoneStr == [given |-> FALSE, text |-> ""]

Str(s) == [given |-> TRUE, text |-> s]

\* A JSON document as upload_file reads it: kind is "invalid" when
\* response.json() raises and "list" when the document is no object; ok,
\* upload_url and file_id are what the keys of that name hold.
Json(kind, okfield, url, id) ==
  [kind |-> kind, ok |-> okfield, upload_url |-> url, file_id |-> id]

NoJson == Json("none", "absent", NoneStr, NoneStr)

\* The tuple (success, response or message) of upload_file.
Uploaded(success, message, doc) == [success |-> success, message |-> message, data |-> doc]

NotUploaded == Uploaded(FALSE, "pending", NoJson)

\* The arguments of upload_file.
UploadArgs(title, comment) ==
  [channel_id |-> "C024BE91L", filename |-> "export.csv", length |-> 3,
   title |-> title, initial_comment |-> comment]

\* A dictionary without keys.
EmptyDict == <<>>

\* A call on the session manager and what it returned: value is the tuple
\* of the values returned, empty for a call that returns None.
ManagerCall(op, user, type, value) == [op |-> op, user |-> user, type |-> type, value |-> value]

NoCall == ManagerCall("none", "", "", <<>>)

llmVars == <<llm_question, schema, response, lpc, posted, content, guard, ret>>

agenticVars == <<confidence_threshold, agentic, apc>>

uploadVars == <<bot_token, upload_args, calls, replies, upc, uploaded>>

managerVars == <<sessions, objs, log, got, mcall, mpc, mref>>

pageVars == <<data, page_number, rows_per_page, page, info, ppc>>

serviceVars == <<llmVars, agenticVars, uploadVars, managerVars, pageVars>>

LlmIdle ==
  /\ llm_question = ""
  /\ schema = ""
  /\ response = NoResponse
  /\ lpc = "idle"
  /\ posted = 0
  /\ content = PyPending
  /\ guard = NoResult
  /\ ret = PyPending

AgenticIdle ==
  /\ confidence_threshold = 0
  /\ agentic = NoAdvice
  /\ apc = "idle"

UploadIdle ==
  /\ bot_token = ""
  /\ upload_args = UploadArgs(NoneStr, NoneStr)
  /\ calls = <<>>
  /\ replies = <<>>
  /\ upc = "idle"
  /\ uploaded = NotUploaded

ManagerIdle ==
  /\ sessions = EmptyDict
  /\ objs = EmptyDict
  /\ log = <<>>
  /\ got = NoCall
  /\ mcall = <<>>
  /\ mpc = <<>>
  /\ mref = <<>>

PageIdle ==
  /\ data = <<>>
  /\ page_number = 0
  /\ rows_per_page = 0
  /\ page = <<>>
  /\ info = <<>>
  /\ ppc = "idle"

ServicesIdle == LlmIdle /\ AgenticIdle /\ UploadIdle /\ ManagerIdle /\ PageIdle

RouterInit ==
  /\ question \in Questions
  /\ router = QueryRouter
  /\ routed = NoRoute
  /\ rpc = "start"
  /\ SanitizeIdle /\ ValidatorIdle /\ ThreadsIdle /\ ServicesIdle

\* A call as a variant that learns: it adds the tokens of the question to
\* the router's simple keywords.
RouteQuestionLearning ==
  /\ rpc = "start"
  /\ routed' = route_question(router, question)
  /\ router' = [router EXCEPT !.simple_keywords =
                  @ \cup {split(question)[i] : i \in DOMAIN split(question)}]
  /\ rpc' = "returned"
  /\ UNCHANGED <<question, sanitizeVars, validatorVars, threadVars, serviceVars>>

\* A call of query_router.route_question(question): it reads the router's
\* attributes and assigns none of them.
RouteQuestion ==
  /\ rpc = "start"
  /\ routed' = route_question(router, question)
  /\ rpc' = "returned"
  /\ UNCHANGED <<question, router, sanitizeVars, validatorVars, threadVars, serviceVars>>

RouterNext == RouteQuestion

RouterSpec == RouterInit /\ [][RouterNext]_vars

(***************************************************************************)
(* The identifier validator.  The tests import validate_table_name from    *)
(* core.guardrails and call it on table names; the import statement looks  *)
(* each name up among the names the module defines.                        *)
(***************************************************************************)
\* The names bound at the top level of src/core/guardrails.py.
guardrails_names == {"re", "ALLOWED_SELECT", "sanitize_sql"}

\* from core.guardrails import sanitize_sql, validate_table_name
test_imports == {"sanitize_sql", "validate_table_name"}

\* A from-import succeeds when the module defines every name asked for,
\* and raises ImportError otherwise.
import_succeeds(defined, wanted) == wanted \subseteq defined

MaxNameLen == 2

NameChars == {"a", "T", "_", "1", "-", " ", "."}

RECURSIVE NamesUpTo(_)
NamesUpTo(n) ==
  IF n = 0 THEN {""}
  ELSE LET N == NamesUpTo(n - 1)
       IN  N \cup {m \o c : m \in N, c \in NameChars}

\* The names of test_table_name_validation.
TestNames ==
  { "users", "user_accounts", "Products", "table123", "T1",
    "", "123table", "user-accounts", "sqlite_master", "pg_tables",
    "information_schema", "user accounts", "user.accounts" }

TableNames == {PyStr(n) : n \in TestNames \cup NamesUpTo(MaxNameLen)} \cup {PyNone}

ValidatorInit ==
  /\ name \in TableNames
  /\ valid = "unset"
  /\ vpc = "start"
  /\ SanitizeIdle /\ RouterIdle /\ ThreadsIdle /\ ServicesIdle

\* The test module is loaded: its import of the validator is resolved.  No
\* function is bound, so no call follows and no verdict is ever set.
ImportValidator ==
  /\ vpc = "start"
  /\ vpc' = IF import_succeeds(guardrails_names, test_imports)
            THEN "imported" ELSE "import_error"
  /\ UNCHANGED <<name, valid, sanitizeVars, routerVars, threadVars, serviceVars>>

ValidatorNext == ImportValidator

ValidatorSpec == ValidatorInit /\ [][ValidatorNext]_vars

(***************************************************************************)
(* The guardrail as a state machine: a call of sanitize_sql on the         *)
(* candidate, and for an accepted candidate a second call on the           *)
(* statement the first one returned.                                       *)
(***************************************************************************)
SanitizeInit ==
  /\ sql \in Inputs
  /\ default_limit \in Caps
  /\ pc = "start"
  /\ verdict = NoResult
  /\ again = NoResult
  /\ RouterIdle /\ ValidatorIdle /\ ThreadsIdle /\ ServicesIdle

Call ==
  /\ pc = "start"
  /\ IF raises(sql)
     THEN pc' = "raised" /\ verdict' = NoResult
     ELSE pc' = "returned" /\ verdict' = sanitize_sql(sql, default_limit)
  /\ UNCHANGED <<sql, default_limit, again, routerVars, validatorVars, threadVars, serviceVars>>

CallAgain ==
  /\ pc = "returned"
  /\ verdict.ok
  /\ again' = sanitize_sql(PyStr(verdict.sql), default_limit)
  /\ pc' = "returned_again"
  /\ UNCHANGED <<sql, default_limit, verdict, routerVars, validatorVars, threadVars, serviceVars>>

SanitizeNext == Call \/ CallAgain

SanitizeSpec == SanitizeInit /\ [][SanitizeNext]_vars

Init == SanitizeInit

Next == SanitizeNext

Spec == Init /\ [][Next]_vars

(***************************************************************************)
(* A session: calls of route_question on the global query_router and calls *)
(* of sanitize_sql, one after another in any order and number.  A variable *)
(* keeps what the last call of its kind returned.                          *)
(***************************************************************************)
SessionQuestions ==
  { "show top 10", "Why did analyze", "total", "analyze", "data",
    "what of in at by to on up it so we" }

SessionCandidates ==
  { PyStr(<<"SELECT", " ", "x">>),
    PyStr(<<"select", " ", "x", " ", "LIMIT", " ", "5", ";">>),
    PyStr(<<"DROP", " ", "x">>),
    PyNone,
    PyInt(123) }

SessionInit ==
  /\ question \in SessionQuestions
  /\ router = QueryRouter
  /\ routed = NoRoute
  /\ rpc = "start"
  /\ sql \in SessionCandidates
  /\ default_limit = DEFAULT_LIMIT
  /\ pc = "start"
  /\ verdict = NoResult
  /\ again = NoResult
  /\ ValidatorIdle /\ ThreadsIdle /\ ServicesIdle

\* The next call of route_question, on any question.
NextQuestion ==
  /\ rpc = "returned"
  /\ \E q \in SessionQuestions : question' = q
  /\ rpc' = "start"
  /\ UNCHANGED <<router, routed, sanitizeVars, validatorVars, threadVars, serviceVars>>

\* The next call of sanitize_sql, on any candidate.
NextCandidate ==
  /\ pc \in {"returned", "returned_again"}
  /\ \E c \in SessionCandidates : sql' = c
  /\ pc' = "start"
  /\ UNCHANGED <<default_limit, verdict, again, routerVars, validatorVars, threadVars, serviceVars>>

SessionNext == RouteQuestion \/ NextQuestion \/ Call \/ CallAgain \/ NextCandidate

SessionSpec == SessionInit /\ [][SessionNext]_vars

(***************************************************************************)
(* Concurrent calls.  Each of NumThreads threads makes one call, of        *)
(* route_question on the global query_router or of sanitize_sql, and the   *)
(* threads are interleaved at will.  A call of route_question takes two    *)
(* steps: it computes its local variables and creates its routing_metadata *)
(* dictionary, then it decides, writes confidence and reasoning to the     *)
(* dictionary and returns it.  dicts is the heap of dictionaries; a result *)
(* holds a reference to one.                                               *)
(***************************************************************************)
NumThreads == 2

Threads == 1..NumThreads

ThreadQuestions ==
  {"show top 10", "Why did analyze", "total", "what of in at by to on up it so we"}

ThreadCandidates == {PyStr(<<"SELECT", " ", "x">>), PyStr(<<"DROP", " ", "x">>)}

ThreadCalls ==
  {[op |-> "route", arg |-> q] : q \in ThreadQuestions}
    \cup {[op |-> "sanitize", arg |-> c] : c \in ThreadCandidates}

NoThreadResult == [type |-> "PENDING", ref |-> 0, verdict |-> NoResult]

ThreadInit ==
  /\ tcall \in [Threads -> ThreadCalls]
  /\ tpc = [t \in Threads |-> "start"]
  /\ tloc = [t \in Threads |-> NoLocals]
  /\ dicts = [t \in Threads |-> new_metadata(NoLocals)]
  /\ tres = [t \in Threads |-> NoThreadResult]
  /\ question = ""
  /\ router = QueryRouter
  /\ routed = NoRoute
  /\ rpc = "idle"
  /\ SanitizeIdle /\ ValidatorIdle /\ ServicesIdle

\* The dictionary of a call as a variant: one dictionary, an attribute of
\* the router, that every call fills in.
metadata_ref_shared(t) == 1

\* Lines 138-144 build a new dictionary in every call: the call of thread
\* t owns the dictionary t.
metadata_ref(t) == t

\* Lines 119-144 on thread t.
ThreadScore(t) ==
  /\ tpc[t] = "start"
  /\ tcall[t].op = "route"
  /\ LET l == routing_locals(router, tcall[t].arg)
     IN  /\ tloc' = [tloc EXCEPT ![t] = l]
         /\ dicts' = [dicts EXCEPT ![metadata_ref(t)] = new_metadata(l)]
  /\ tpc' = [tpc EXCEPT ![t] = "scored"]
  /\ UNCHANGED <<tcall, tres, sanitizeVars, routerVars, validatorVars, serviceVars>>

\* Lines 147-182 on thread t.
ThreadDecide(t) ==
  /\ tpc[t] = "scored"
  /\ LET d == decision(tloc[t])
     IN  /\ dicts' = [dicts EXCEPT ![metadata_ref(t)] = decided_metadata(@, d)]
         /\ tres' = [tres EXCEPT ![t] = [type |-> d.type, ref |-> metadata_ref(t),
                                         verdict |-> NoResult]]
  /\ tpc' = [tpc EXCEPT ![t] = "returned"]
  /\ UNCHANGED <<tcall, tloc, sanitizeVars, routerVars, validatorVars, serviceVars>>

\* sanitize_sql on thread t: it reads its arguments only.
ThreadSanitize(t) ==
  /\ tpc[t] = "start"
  /\ tcall[t].op = "sanitize"
  /\ tres' = [tres EXCEPT ![t] = [type |-> "PENDING", ref |-> 0,
                                  verdict |-> sanitize_sql(tcall[t].arg, DEFAULT_LIMIT)]]
  /\ tpc' = [tpc EXCEPT ![t] = "returned"]
  /\ UNCHANGED <<tcall, tloc, dicts, sanitizeVars, routerVars, validatorVars, serviceVars>>

ThreadNext ==
  \E t \in Threads : ThreadScore(t) \/ ThreadDecide(t) \/ ThreadSanitize(t)

ThreadSpec == ThreadInit /\ [][ThreadNext]_vars

(***************************************************************************)
(* LLMService.get_sql_query.  The call checks its arguments, posts the     *)
(* prompt to the Ollama API, extracts the content of the answer, cleans    *)
(* it, tests it against its own SELECT pattern and hands it to             *)
(* sanitize_sql.  The answer of the API is the environment's choice: the   *)
(* request fails, or a response with a status and a body arrives.          *)
(***************************************************************************)
\* Line 47: "not question or not schema".
missing_argument(q, sch) == q = "" \/ sch = ""

\* Line 75: re.sub(r"^sql\n", "", content, flags=re.IGNORECASE): a leading
\* "sql" directly followed by a newline is removed.
llm_sub_sql_prefix(s) ==
  IF Len(s) >= 2 /\ Upper(s[1]) = "SQL" /\ s[2] = "\n"
  THEN SubSeq(s, 3, Len(s))
  ELSE s

\* Lines 74-76.
clean_content(t) ==
  LET s1 == strip(strip(t, Whitespace), {"BQ"})
      s2 == strip(llm_sub_sql_prefix(s1), Whitespace)
  IN  strip(rstrip(s2, {";"}), Whitespace)

\* Line 79: re.match(r"^\s*(WITH\s+.+?\s+)?SELECT\b", content, IGNORECASE |
\* DOTALL).  After the leading whitespace stands SELECT, or WITH, whitespace,
\* at least one character of any kind, whitespace and SELECT.
select_statement(s) ==
  \E p \in AfterSpaces(s, 1) :
     \/ SelectAt(s, p)
     \/ /\ p + 1 <= Len(s)
        /\ Upper(s[p]) = "WITH"
        /\ IsSpace(s[p + 1])
        /\ \E q \in (p + 4)..Len(s) : IsSpace(s[q - 1]) /\ SelectAt(s, q)

\* Line 71: (data.get("message") or {}).get("content", "") or "".  The
\* lookups raise AttributeError on a document or a message that is no dict.
Extracted(raised, value) == [raised |-> raised, value |-> value]

extract_content(body) ==
  IF body.json # "dict" THEN Extracted(TRUE, PyAbsent)
  ELSE IF body.message \in {"absent", "null"} THEN Extracted(FALSE, PyStr(<<>>))
  ELSE IF body.message # "dict" THEN Extracted(TRUE, PyAbsent)
  ELSE IF body.content = PyAbsent \/ Falsy(body.content) THEN Extracted(FALSE, PyStr(<<>>))
  ELSE Extracted(FALSE, body.content)

\* The answers of the language model: statements and other texts between
\* the artifacts models put around them.
MaxAnswerTail == 1

WithoutAs == <<"WITH", " ", "x", " ", "SELECT">>

AnswerHeads == Heads \cup {WithoutAs}

LlmAnswers ==
  {w[1] \o h \o t \o w[2] : w \in Wrappers, h \in AnswerHeads, t \in TailsOf(MaxAnswerTail)}

Contents ==
  {PyAbsent, PyNone, PyInt(0), PyInt(5), PyStr(<<>>)} \cup {PyStr(t) : t \in LlmAnswers}

Bodies ==
  {Body("invalid", "absent", PyAbsent), Body("list", "absent", PyAbsent)}
    \cup {Body("dict", m, PyAbsent) : m \in {"absent", "null", "str"}}
    \cup {Body("dict", "dict", c) : c \in Contents}

Responses ==
  {Response("network_error", NoBody)}
    \cup {Response(o, b) : o \in {"http_error", "ok"}, b \in Bodies}

LlmQuestions == {"", "How many users are there?"}

LlmSchemas == {"", "users(id, name)"}

\* The exceptions of a call, by class.  Lines 91-96: the first handler
\* takes the exceptions of requests, the second one every Exception.
RequestExceptions == {"ConnectionError", "HTTPError"}

Exceptions == RequestExceptions \cup {"JSONDecodeError", "AttributeError"}

\* The handlers as a variant without the second one.
caught_request_exceptions_only(e) == e \in RequestExceptions

caught(e) == e \in RequestExceptions \/ e \in Exceptions

LlmInit ==
  /\ llm_question \in LlmQuestions
  /\ schema \in LlmSchemas
  /\ response = NoResponse
  /\ lpc = "start"
  /\ posted = 0
  /\ content = PyPending
  /\ guard = NoResult
  /\ ret = PyPending
  /\ SanitizeIdle /\ RouterIdle /\ ValidatorIdle /\ ThreadsIdle
  /\ AgenticIdle /\ UploadIdle /\ ManagerIdle /\ PageIdle

\* The call ends with exception e: a handler prints it and returns None, or
\* the exception leaves the function.
LlmExcept(e) ==
  /\ lpc' = IF caught(e) THEN "returned" ELSE "raised"
  /\ ret' = IF caught(e) THEN PyNone ELSE PyPending

\* Lines 47-48.
GetSqlQueryReject ==
  /\ lpc = "start"
  /\ missing_argument(llm_question, schema)
  /\ lpc' = "returned"
  /\ ret' = PyNone
  /\ UNCHANGED <<llm_question, schema, response, posted, content, guard>>
  /\ UNCHANGED <<sanitizeVars, routerVars, validatorVars, threadVars>>
  /\ UNCHANGED <<agenticVars, uploadVars, managerVars, pageVars>>

\* Lines 50-65: the request is sent; it fails or a response arrives.
GetSqlQueryPost ==
  /\ lpc = "start"
  /\ ~missing_argument(llm_question, schema)
  /\ posted' = posted + 1
  /\ \E r \in Responses :
        /\ response' = r
        /\ IF r.outcome = "network_error"
           THEN LlmExcept("ConnectionError")
           ELSE lpc' = "responded" /\ ret' = ret
  /\ UNCHANGED <<llm_question, schema, content, guard>>
  /\ UNCHANGED <<sanitizeVars, routerVars, validatorVars, threadVars>>
  /\ UNCHANGED <<agenticVars, uploadVars, managerVars, pageVars>>

\* Lines 67-81: the status, the document, its content, the cleaning and
\* the test that the content is a SELECT statement.
GetSqlQueryExtract ==
  /\ lpc = "responded"
  /\ LET e == extract_content(response.body)
         c == clean_content(e.value.text)
     IN  IF response.outcome = "http_error"
         THEN LlmExcept("HTTPError") /\ content' = content
         ELSE IF response.body.json = "invalid"
         THEN LlmExcept("JSONDecodeError") /\ content' = content
         ELSE IF e.raised \/ e.value.kind # "str"
         THEN LlmExcept("AttributeError") /\ content' = content
         ELSE /\ content' = PyStr(c)
              /\ lpc' = IF select_statement(c) THEN "guardrail" ELSE "returned"
              /\ ret' = IF select_statement(c) THEN ret ELSE PyNone
  /\ UNCHANGED <<llm_question, schema, response, posted, guard>>
  /\ UNCHANGED <<sanitizeVars, routerVars, validatorVars, threadVars>>
  /\ UNCHANGED <<agenticVars, uploadVars, managerVars, pageVars>>

\* get_sql_query as a variant that returns the cleaned content once the
\* guardrail has accepted it.
returned_sql_unnormalized(cleaned, v) == cleaned

\* Line 89: the statement returned is the guardrail's.
returned_sql(cleaned, v) == PyStr(v.sql)

\* Lines 84-89: the guardrail.
GetSqlQueryGuardrail ==
  /\ lpc = "guardrail"
  /\ LET v == sanitize_sql(content, DEFAULT_LIMIT)
     IN  /\ guard' = v
         /\ ret' = IF v.ok THEN returned_sql(content, v) ELSE PyNone
  /\ lpc' = "returned"
  /\ UNCHANGED <<llm_question, schema, response, posted, content>>
  /\ UNCHANGED <<sanitizeVars, routerVars, validatorVars, threadVars>>
  /\ UNCHANGED <<agenticVars, uploadVars, managerVars, pageVars>>

LlmNext ==
  GetSqlQueryReject \/ GetSqlQueryPost \/ GetSqlQueryExtract \/ GetSqlQueryGuardrail

LlmSpec == LlmInit /\ [][LlmNext]_vars

(***************************************************************************)
(* QueryRouter.should_use_agentic.  The call routes the question and turns *)
(* the route into the tuple (use_agentic, explanation).  Confidences and   *)
(* the threshold are counted in tenths.                                    *)
(***************************************************************************)
\* f"{confidence:.1%}" for a confidence of c tenths.
format_percent(c) ==
  IF c >= 10 THEN "100.0%"
  ELSE IF c = 0 THEN "0.0%"
  ELSE SubSeq("123456789", c, c) \o "0.0%"

\* Line 213: a Complex route below the threshold answers True.
use_below_threshold == TRUE

should_use_agentic(self, q, threshold) ==
  LET r == route_question(self, q)
      c == r.metadata.confidence
  IN  IF r.type = "COMPLEX" /\ c >= threshold
      THEN Advice(TRUE, "Complex analytical question (confidence: " \o format_percent(c) \o ")")
      ELSE IF r.type = "COMPLEX"
      THEN Advice(use_below_threshold,
                  "Likely complex question (confidence: " \o format_percent(c) \o ")")
      ELSE Advice(FALSE, "Simple data query (confidence: " \o format_percent(c) \o ")")

\* The default of confidence_threshold, in tenths.
DefaultThreshold == 7

Thresholds == {5, DefaultThreshold, 9}

AgenticInit ==
  /\ question \in Questions
  /\ router = QueryRouter
  /\ routed = NoRoute
  /\ rpc = "idle"
  /\ confidence_threshold \in Thresholds
  /\ agentic = NoAdvice
  /\ apc = "start"
  /\ SanitizeIdle /\ ValidatorIdle /\ ThreadsIdle
  /\ LlmIdle /\ UploadIdle /\ ManagerIdle /\ PageIdle

\* Lines 208-216; routed keeps the tuple of line 208.
ShouldUseAgentic ==
  /\ apc = "start"
  /\ routed' = route_question(router, question)
  /\ agentic' = should_use_agentic(router, question, confidence_threshold)
  /\ apc' = "returned"
  /\ UNCHANGED <<question, router, rpc, confidence_threshold>>
  /\ UNCHANGED <<sanitizeVars, validatorVars, threadVars>>
  /\ UNCHANGED <<llmVars, uploadVars, managerVars, pageVars>>

AgenticNext == ShouldUseAgentic

AgenticSpec == AgenticInit /\ [][AgenticNext]_vars

(***************************************************************************)
(* SlackService.upload_file.  The external upload flow is three requests:  *)
(* files.getUploadURLExternal, the upload of the bytes to the URL the      *)
(* first one answered, files.completeUploadExternal.  calls is the list of *)
(* the requests sent, replies what came back for each, chosen by the       *)
(* environment: the request raised, or a response arrived with a status,   *)
(* a text and a document.                                                  *)
(***************************************************************************)
SLACK_API_BASE == "https://slack.com/api"

truthy(v) == v.given /\ v.text # ""

Reply(outcome, text, doc) == [outcome |-> outcome, text |-> text, doc |-> doc]

\* A request: its URL and the fields it carries (NoneStr for a field that
\* it does not carry).
Request(target, filename, file_id, title, channel_id, comment) ==
  [target |-> target, filename |-> filename, file_id |-> file_id, title |-> title,
   channel_id |-> channel_id, initial_comment |-> comment]

UploadUrls == {"https://files.slack.com/upload/v1/A", "https://files.slack.com/upload/v1/B"}

FileIds == {"F1", "F2"}

\* The documents a Slack API method may answer.
ApiDocs ==
  {Json("invalid", "absent", NoneStr, NoneStr), Json("list", "absent", NoneStr, NoneStr)}
    \cup {Json("dict", o, NoneStr, NoneStr) : o \in {"absent", "false", "true"}}

UrlDocs ==
  ApiDocs
    \cup {Json("dict", "true", Str(u), NoneStr) : u \in UploadUrls}
    \cup {Json("dict", "true", Str(u), Str(f)) : u \in UploadUrls, f \in FileIds}

Failures ==
  {Reply("exception", "Connection refused", NoJson), Reply("error_status", "ratelimited", NoJson)}

UrlReplies == Failures \cup {Reply("ok", "", d) : d \in UrlDocs}

UploadReplies == Failures \cup {Reply("ok", "OK - 3", NoJson)}

CompleteReplies == Failures \cup {Reply("ok", "", d) : d \in ApiDocs}

\* str(e) of the exceptions that reading a document raises.
document_error(doc) ==
  IF doc.kind = "invalid" THEN "Expecting value: line 1 column 1 (char 0)"
  ELSE "'list' object has no attribute 'get'"

\* f"{url_data}" of a document without ok=true.
document_text(doc) == IF doc.ok = "false" THEN "{'ok': False}" ELSE "{}"

\* How a step of the flow ends: it goes on, or the call returns.
Step(proceed, raised, result) == [proceed |-> proceed, raised |-> raised, result |-> result]

Failed(message) == Step(FALSE, FALSE, Uploaded(FALSE, message, NoJson))

Proceed == Step(TRUE, FALSE, NotUploaded)

\* Line 147: the handler takes every Exception raised in lines 78-145.
UploadExceptions == {"ConnectionError", "JSONDecodeError", "AttributeError", "KeyError"}

handled(e) == e \in UploadExceptions

\* Exception e with the text str(e) is raised: the handler returns
\* (False, str(e)), or the exception leaves the function.
Raise(e, text) == IF handled(e) THEN Failed(text) ELSE Step(FALSE, TRUE, NotUploaded)

\* The exception that reading a document raises.
document_exception(doc) == IF doc.kind = "invalid" THEN "JSONDecodeError" ELSE "AttributeError"

\* Lines 93-101 and the handler of lines 147-149.
after_get_url(r) ==
  IF r.outcome = "exception" THEN Raise("ConnectionError", r.text)
  ELSE IF r.outcome # "ok" THEN Failed("Failed to get upload URL: " \o r.text)
  ELSE IF r.doc.kind # "dict" THEN Raise(document_exception(r.doc), document_error(r.doc))
  ELSE IF r.doc.ok # "true" THEN Failed("Slack API error: " \o document_text(r.doc))
  ELSE IF ~r.doc.upload_url.given THEN Raise("KeyError", "'upload_url'")
  ELSE IF ~r.doc.file_id.given THEN Raise("KeyError", "'file_id'")
  ELSE Proceed

\* Line 111 as a variant that does not look at the status of the upload.
upload_response_ok_unchecked(r) == TRUE

\* Line 111: upload_response.ok.
upload_response_ok(r) == r.outcome = "ok"

\* Lines 111-112 and the handler of lines 147-149.
after_upload(r) ==
  IF r.outcome = "exception" THEN Raise("ConnectionError", r.text)
  ELSE IF ~upload_response_ok(r) THEN Failed("File upload failed: " \o r.text)
  ELSE Proceed

\* Lines 138-145 and the handler of lines 147-149.
after_complete(r) ==
  IF r.outcome = "exception" THEN Raise("ConnectionError", r.text)
  ELSE IF r.outcome # "ok" THEN Failed("Failed to complete upload: " \o r.text)
  ELSE IF r.doc.kind # "dict" THEN Raise(document_exception(r.doc), document_error(r.doc))
  ELSE IF r.doc.ok # "true" THEN Failed("Complete upload error: " \o document_text(r.doc))
  ELSE Step(FALSE, FALSE, Uploaded(TRUE, "", r.doc))

Tokens == {"", "xoxb-1"}

Titles == {NoneStr, Str("Report")}

Comments == {NoneStr, Str(""), Str("Here is the export")}

UploadInit ==
  /\ bot_token \in Tokens
  /\ upload_args \in {UploadArgs(ti, co) : ti \in Titles, co \in Comments}
  /\ calls = <<>>
  /\ replies = <<>>
  /\ upc = "start"
  /\ uploaded = NotUploaded
  /\ SanitizeIdle /\ RouterIdle /\ ValidatorIdle /\ ThreadsIdle
  /\ LlmIdle /\ AgenticIdle /\ ManagerIdle /\ PageIdle

\* The request is sent, reply r comes back, and the step ends as s says.
Exchange(request, r, s, next) ==
  /\ calls' = Append(calls, request)
  /\ replies' = Append(replies, r)
  /\ upc' = IF s.raised THEN "raised" ELSE IF s.proceed THEN next ELSE "returned"
  /\ uploaded' = s.result
  /\ UNCHANGED <<bot_token, upload_args>>
  /\ UNCHANGED <<sanitizeVars, routerVars, validatorVars, threadVars>>
  /\ UNCHANGED <<llmVars, agenticVars, managerVars, pageVars>>

\* Lines 75-76.
UploadWithoutToken ==
  /\ upc = "start"
  /\ bot_token = ""
  /\ upc' = "returned"
  /\ uploaded' = Uploaded(FALSE, "SLACK_BOT_TOKEN not configured", NoJson)
  /\ UNCHANGED <<bot_token, upload_args, calls, replies>>
  /\ UNCHANGED <<sanitizeVars, routerVars, validatorVars, threadVars>>
  /\ UNCHANGED <<llmVars, agenticVars, managerVars, pageVars>>

\* Lines 79-101.
GetUploadUrl ==
  /\ upc = "start"
  /\ bot_token # ""
  /\ \E r \in UrlReplies :
        Exchange(Request(SLACK_API_BASE \o "/files.getUploadURLExternal",
                         Str(upload_args.filename), NoneStr, NoneStr, NoneStr, NoneStr),
                 r, after_get_url(r), "got_url")

\* Lines 103-112: the bytes go to the upload_url of the first reply.
UploadBytes ==
  /\ upc = "got_url"
  /\ \E r \in UploadReplies :
        Exchange(Request(replies[1].doc.upload_url.text,
                         NoneStr, NoneStr, NoneStr, NoneStr, NoneStr),
                 r, after_upload(r), "uploaded")

\* Lines 114-145.
CompleteUpload ==
  /\ upc = "uploaded"
  /\ \E r \in CompleteReplies :
        Exchange(Request(SLACK_API_BASE \o "/files.completeUploadExternal",
                         NoneStr, replies[1].doc.file_id,
                         IF truthy(upload_args.title) THEN upload_args.title
                                                      ELSE Str(upload_args.filename),
                         Str(upload_args.channel_id),
                         IF truthy(upload_args.initial_comment)
                         THEN upload_args.initial_comment ELSE NoneStr),
                 r, after_complete(r), "returned")

UploadNext == UploadWithoutToken \/ GetUploadUrl \/ UploadBytes \/ CompleteUpload

UploadSpec == UploadInit /\ [][UploadNext]_vars

(***************************************************************************)
(* SessionManager.  self._sessions maps a user to a dictionary of that     *)
(* user's selections.  sessions maps each user to a reference and objs     *)
(* each reference to the dictionary it denotes, so that a caller may hold  *)
(* a dictionary that sessions no longer refers to.  got is the last call   *)
(* with what it returned, log the stores and clears made so far.           *)
(***************************************************************************)
dict_set(d, k, v) == [x \in (DOMAIN d) \cup {k} |-> IF x = k THEN v ELSE d[x]]

dict_get(d, k) == IF k \in DOMAIN d THEN Str(d[k]) ELSE NoneStr

dict_without(d, k) == [x \in (DOMAIN d) \ {k} |-> d[x]]

Heap(s, o) == [sessions |-> s, objs |-> o]

Users == {"U1", "U2"}

SelectionTypes == <<"X", "Y", "CSV">>

\* The values a selection of each type may take.
SelectionValues == [X |-> {"month", "genre"}, Y |-> {"total"}, CSV |-> {"exports/q.csv"}]

NumRefs == Cardinality(Users) + NumThreads + 1

\* The reference of a dictionary that is created: the first one not in use.
new_ref(o) == CHOOSE n \in 1..NumRefs : n \notin DOMAIN o /\ \A m \in 1..(n - 1) : m \in DOMAIN o

\* Line 502.
create_session(h, u) ==
  LET r == new_ref(h.objs)
  IN  Heap(dict_set(h.sessions, u, r), dict_set(h.objs, r, EmptyDict))

\* Lines 501-502.
ensure_session(h, u) == IF u \notin DOMAIN h.sessions THEN create_session(h, u) ELSE h

\* Line 503 as a variant that puts a new dictionary with the one selection
\* in the place of the user's dictionary.
assign_selection_replacing(h, u, ty, v) ==
  Heap(h.sessions, [h.objs EXCEPT ![h.sessions[u]] = dict_set(EmptyDict, ty, v)])

\* Line 503.
assign_selection(h, u, ty, v) ==
  Heap(h.sessions, [h.objs EXCEPT ![h.sessions[u]] = dict_set(@, ty, v)])

store_user_selection(h, u, ty, v) == assign_selection(ensure_session(h, u), u, ty, v)

\* Lines 507 and 516 as a variant with setdefault: the read creates the
\* session of a user who has none.
after_get_with_setdefault(h, u) == ensure_session(h, u)

\* Lines 507 and 516: self._sessions.get(user_id, {}) leaves _sessions as
\* it is.
after_get(h, u) == h

\* self._sessions.get(user_id, {})
user_data(h, u) == IF u \in DOMAIN h.sessions THEN h.objs[h.sessions[u]] ELSE EmptyDict

get_user_selection(h, u, ty) == dict_get(user_data(h, u), ty)

get_user_selections(h, u) ==
  <<dict_get(user_data(h, u), "X"), dict_get(user_data(h, u), "Y"),
    dict_get(user_data(h, u), "CSV")>>

\* Line 521: pop(user_id, None) is given a default.
pop_default_given == TRUE

\* dict.pop raises KeyError for a missing key when it has no default.
clear_raises(h, u) == u \notin DOMAIN h.sessions /\ ~pop_default_given

\* Line 521: the dictionary of the user is no longer referred to and goes
\* away.
clear_user_session(h, u) ==
  IF u \in DOMAIN h.sessions
  THEN Heap(dict_without(h.sessions, u), dict_without(h.objs, h.sessions[u]))
  ELSE h

MaxOps == 3

ManagerInit ==
  /\ sessions = EmptyDict
  /\ objs = EmptyDict
  /\ log = <<>>
  /\ got = NoCall
  /\ mcall = <<>>
  /\ mpc = <<>>
  /\ mref = <<>>
  /\ SanitizeIdle /\ RouterIdle /\ ValidatorIdle /\ ThreadsIdle
  /\ LlmIdle /\ AgenticIdle /\ UploadIdle /\ PageIdle

\* A call that changes the sessions to h and returns nothing.
Mutate(c, h) ==
  /\ Len(log) < MaxOps
  /\ sessions' = h.sessions
  /\ objs' = h.objs
  /\ log' = Append(log, c)
  /\ got' = c
  /\ UNCHANGED <<mcall, mpc, mref>>
  /\ UNCHANGED <<sanitizeVars, routerVars, validatorVars, threadVars>>
  /\ UNCHANGED <<llmVars, agenticVars, uploadVars, pageVars>>

\* A call that returns the values vs and leaves the sessions as h.
Read(c, h) ==
  /\ sessions' = h.sessions
  /\ objs' = h.objs
  /\ got' = c
  /\ UNCHANGED <<log, mcall, mpc, mref>>
  /\ UNCHANGED <<sanitizeVars, routerVars, validatorVars, threadVars>>
  /\ UNCHANGED <<llmVars, agenticVars, uploadVars, pageVars>>

StoreUserSelection ==
  \E u \in Users, k \in 1..Len(SelectionTypes) :
     \E v \in SelectionValues[SelectionTypes[k]] :
        Mutate(ManagerCall("store", u, SelectionTypes[k], <<v>>),
               store_user_selection(Heap(sessions, objs), u, SelectionTypes[k], v))

ClearUserSession ==
  \E u \in Users :
     IF clear_raises(Heap(sessions, objs), u)
     THEN Mutate(ManagerCall("KeyError", u, "", <<>>), Heap(sessions, objs))
     ELSE Mutate(ManagerCall("clear", u, "", <<>>), clear_user_session(Heap(sessions, objs), u))

GetUserSelection ==
  \E u \in Users, k \in 1..Len(SelectionTypes) :
     Read(ManagerCall("get", u, SelectionTypes[k],
                      <<get_user_selection(Heap(sessions, objs), u, SelectionTypes[k])>>),
          after_get(Heap(sessions, objs), u))

GetUserSelections ==
  \E u \in Users :
     Read(ManagerCall("gets", u, "", get_user_selections(Heap(sessions, objs), u)),
          after_get(Heap(sessions, objs), u))

ManagerNext ==
  StoreUserSelection \/ ClearUserSession \/ GetUserSelection \/ GetUserSelections

ManagerSpec == ManagerInit /\ [][ManagerNext]_vars

(***************************************************************************)
(* Concurrent calls of store_user_selection on the global session_manager. *)
(* Each thread makes one call, and the threads are interleaved between the *)
(* steps of the call: the test of line 501, the creation of the user's     *)
(* dictionary in line 502, and the two halves of line 503, which reads the *)
(* user's dictionary from _sessions and then stores the selection in it.   *)
(***************************************************************************)
ThreadStores ==
  {ManagerCall("store", u, "X", <<"month">>) : u \in Users}
    \cup {ManagerCall("store", u, "Y", <<"total">>) : u \in Users}

ManagerThreadInit ==
  /\ sessions = EmptyDict
  /\ objs = EmptyDict
  /\ log = <<>>
  /\ got = NoCall
  /\ mcall \in [Threads -> ThreadStores]
  /\ mpc = [th \in Threads |-> "start"]
  /\ mref = [th \in Threads |-> 0]
  /\ SanitizeIdle /\ RouterIdle /\ ValidatorIdle /\ ThreadsIdle
  /\ LlmIdle /\ AgenticIdle /\ UploadIdle /\ PageIdle

\* Thread th takes a step that leaves the sessions as h and goes to next.
ThreadStep(th, h, ref, next) ==
  /\ sessions' = h.sessions
  /\ objs' = h.objs
  /\ mref' = [mref EXCEPT ![th] = ref]
  /\ mpc' = [mpc EXCEPT ![th] = next]
  /\ UNCHANGED <<log, got, mcall>>
  /\ UNCHANGED <<sanitizeVars, routerVars, validatorVars, threadVars>>
  /\ UNCHANGED <<llmVars, agenticVars, uploadVars, pageVars>>

\* Line 501.
StoreCheck(th) ==
  /\ mpc[th] = "start"
  /\ ThreadStep(th, Heap(sessions, objs), mref[th],
                IF mcall[th].user \notin DOMAIN sessions THEN "create" ELSE "load")

\* Line 502.
StoreCreate(th) ==
  /\ mpc[th] = "create"
  /\ ThreadStep(th, create_session(Heap(sessions, objs), mcall[th].user), mref[th], "load")

\* Line 503, self._sessions[user_id].
StoreLoad(th) ==
  /\ mpc[th] = "load"
  /\ ThreadStep(th, Heap(sessions, objs), sessions[mcall[th].user], "assign")

\* Line 503, the assignment to the dictionary read.
StoreAssign(th) ==
  /\ mpc[th] = "assign"
  /\ ThreadStep(th,
                Heap(sessions,
                     [objs EXCEPT ![mref[th]] = dict_set(@, mcall[th].type, mcall[th].value[1])]),
                mref[th], "returned")

ManagerThreadNext ==
  \E th \in Threads : StoreCheck(th) \/ StoreCreate(th) \/ StoreLoad(th) \/ StoreAssign(th)

ManagerThreadSpec == ManagerThreadInit /\ [][ManagerThreadNext]_vars

(***************************************************************************)
(* Pagination of query results.  data is the list of rows, page the slice  *)
(* paginate_query_results returned and info the dictionary of              *)
(* calculate_pagination_info, called with len(data).                       *)
(***************************************************************************)
Min(a, b) == IF a <= b THEN a ELSE b

Max(a, b) == IF a >= b THEN a ELSE b

\* data[a:b] for 0 <= a <= b: the indices are cut off at len(data).
slice(s, a, b) == SubSeq(s, Min(a, Len(s)) + 1, Min(b, Len(s)))

\* Line 84 as a variant that takes page_number for a 0-based number.
start_idx_zero_based(pn, rpp) == Max(0, pn * rpp)

\* Line 84.
start_idx(pn, rpp) == Max(0, (pn - 1) * rpp)

\* Lines 84-86.
paginate_query_results(rows, pn, rpp) ==
  slice(rows, start_idx(pn, rpp), start_idx(pn, rpp) + rpp)

\* Line 102 divides by rows_per_page and raises ZeroDivisionError for 0.
pagination_raises(total, pn, rpp) == rpp = 0

\* Lines 102-116, for rows_per_page > 0.
calculate_pagination_info(total, pn, rpp) ==
  LET total_pages == Max(1, (total + rpp - 1) \div rpp)
  IN  [ total_pages |-> total_pages,
        current_page |-> pn,
        start_row |-> (pn - 1) * rpp + 1,
        end_row |-> Min(pn * rpp, total),
        total_rows |-> total,
        has_previous |-> pn > 1,
        has_next |-> pn < total_pages,
        previous_page |-> Max(1, pn - 1),
        next_page |-> Min(total_pages, pn + 1) ]

MaxRows == 4

RowValues == {"r1", "r2"}

RECURSIVE RowLists(_)
RowLists(n) ==
  IF n = 0 THEN {<<>>}
  ELSE LET L == RowLists(n - 1)
       IN  L \cup {Append(l, r) : l \in {m \in L : Len(m) = n - 1}, r \in RowValues}

PageInit ==
  /\ data \in RowLists(MaxRows)
  /\ page_number \in (-1)..(MaxRows + 1)
  /\ rows_per_page \in 0..(MaxRows + 1)
  /\ page = <<>>
  /\ info = <<>>
  /\ ppc = "start"
  /\ SanitizeIdle /\ RouterIdle /\ ValidatorIdle /\ ThreadsIdle
  /\ LlmIdle /\ AgenticIdle /\ UploadIdle /\ ManagerIdle

PaginateQueryResults ==
  /\ ppc = "start"
  /\ page' = paginate_query_results(data, page_number, rows_per_page)
  /\ ppc' = "paginated"
  /\ UNCHANGED <<data, page_number, rows_per_page, info>>
  /\ UNCHANGED <<sanitizeVars, routerVars, validatorVars, threadVars>>
  /\ UNCHANGED <<llmVars, agenticVars, uploadVars, managerVars>>

CalculatePaginationInfo ==
  /\ ppc = "paginated"
  /\ IF pagination_raises(Len(data), page_number, rows_per_page)
     THEN ppc' = "raised" /\ info' = info
     ELSE /\ ppc' = "done"
          /\ info' = calculate_pagination_info(Len(data), page_number, rows_per_page)
  /\ UNCHANGED <<data, page_number, rows_per_page, page>>
  /\ UNCHANGED <<sanitizeVars, routerVars, validatorVars, threadVars>>
  /\ UNCHANGED <<llmVars, agenticVars, uploadVars, managerVars>>

PageNext == PaginateQueryResults \/ CalculatePaginationInfo

PageSpec == PageInit /\ [][PageNext]_vars

(***************************************************************************)
(* Vocabulary of the properties.                                           *)
(***************************************************************************)
Returned == pc \in {"returned", "returned_again"}

IsText == sql.kind = "str"

Accepted == Returned /\ verdict.ok

\* The candidate after lines 16-18 of sanitize_sql.
Stripped == strip_artifacts(sql.text)

\* A denylisted verb stands in t as a whole word, in any letter case.
ContainsDeniedVerb(t) ==
  \E i \in 1..Len(t) :
     /\ \E w \in ForbiddenSet : Upper(t[i]) = w
     /\ (i > 1 => t[i - 1] \in NonWord)
     /\ (i < Len(t) => t[i + 1] \in NonWord)

\* The places of t where a clause LIMIT <n> starts.
LimitClauses(t) == {i \in 1..Len(t) : LimitDigitsAt(t, i) # 0}

DigitOf(c) == CHOOSE k \in 0..9 : Digits[k + 1] = c

\* The number written by the digits of t from position d on.
RECURSIVE DigitsValue(_, _, _)
DigitsValue(t, d, acc) ==
  IF d <= Len(t) /\ IsDigit(t[d])
  THEN DigitsValue(t, d + 1, acc * 10 + DigitOf(t[d]))
  ELSE acc

\* The n of the clause LIMIT <n> that starts at position i of t.
LimitValueAt(t, i) == DigitsValue(t, LimitDigitsAt(t, i), 0)

\* Nothing is left of t once blanks, backticks and the language tag line of
\* a code fence are taken away (the empty and the whitespace-only text
\* included).
BlankOnceUnfenced(t) ==
  strip(sub_sql_prefix(strip(strip(t, Whitespace), {"BQ"})), Whitespace \cup {"BQ"}) = <<>>

\* t carries an SQL comment.
HasComment(t) == \E i \in 1..Len(t) : t[i] \in {"--", "/*"}

(***************************************************************************)
(* The strict reading of "zero or more WITH <name> AS (...) prefixes, then *)
(* SELECT": <name> is one identifier and (...) ends at the parenthesis     *)
(* that closes the one opened after AS.                                    *)
(***************************************************************************)
IdentChars == {"x", "_"} \cup DigitSet

\* The position of the parenthesis closing the one open at depth 1 before
\* position k, or 0 if there is none.
RECURSIVE ClosingParen(_, _, _)
ClosingParen(t, k, depth) ==
  IF k > Len(t) THEN 0
  ELSE IF t[k] = ")" THEN (IF depth = 1 THEN k ELSE ClosingParen(t, k + 1, depth - 1))
  ELSE IF t[k] = "(" THEN ClosingParen(t, k + 1, depth + 1)
  ELSE ClosingParen(t, k + 1, depth)

\* The position after one prefix WITH <name> AS (...) and the whitespace
\* behind it, starting at p; 0 if no such prefix starts at p.
StrictCteEnd(t, p) ==
  IF p + 1 <= Len(t) /\ Upper(t[p]) = "WITH" /\ IsSpace(t[p + 1])
  THEN LET n1 == SetMax(AfterSpaces(t, p + 1))
           n2 == SetMax({q \in n1..(Len(t) + 1) : \A k \in n1..(q - 1) : t[k] \in IdentChars})
           a  == SetMax(AfterSpaces(t, n2))
           l  == IF a <= Len(t) /\ Upper(t[a]) = "AS" THEN SetMax(AfterSpaces(t, a + 1)) ELSE 0
           r  == IF l # 0 /\ l <= Len(t) /\ t[l] = "(" THEN ClosingParen(t, l + 1, 1) ELSE 0
       IN  IF n2 > n1 /\ a > n2 /\ r # 0 THEN SetMax(AfterSpaces(t, r + 1)) ELSE 0
  ELSE 0

RECURSIVE StrictAnchor(_, _)
StrictAnchor(t, p) ==
  \/ SelectAt(t, p)
  \/ StrictCteEnd(t, p) # 0 /\ StrictAnchor(t, StrictCteEnd(t, p))

(***************************************************************************)
(* C1.  Whenever sanitize_sql accepts, the statement it returns contains   *)
(* exactly one clause LIMIT <n>, and that n is at most the cap.  Stated as *)
(* in the specification; the code accepts a candidate's own LIMIT of any   *)
(* size and any number of them.                                            *)
(***************************************************************************)
C1_OneLimitWithinCap ==
  Accepted =>
    /\ Cardinality(LimitClauses(verdict.sql)) = 1
    /\ \A i \in LimitClauses(verdict.sql) : LimitValueAt(verdict.sql, i) <= default_limit

(***************************************************************************)
(* C2.  A candidate that passes the SELECT anchor and the denylist scan    *)
(* and carries a clause LIMIT <n> with n above the cap is rejected with    *)
(* the reason excessive_limit and an empty statement.                      *)
(***************************************************************************)
C2_ExcessiveLimitRejected ==
  ( /\ Returned
    /\ IsText
    /\ ALLOWED_SELECT(Stripped)
    /\ ~ContainsDeniedVerb(Stripped)
    /\ \E i \in LimitClauses(sql.text) : LimitValueAt(sql.text, i) > default_limit )
  => verdict = Result(FALSE, <<>>, "excessive_limit")

(***************************************************************************)
(* C3.  No accepted statement contains a denylisted verb as a whole word,  *)
(* in any letter case, anywhere: a candidate that contains one (also       *)
(* behind a semicolon or a comment marker) is not accepted, and the        *)
(* statement returned for an accepted candidate contains none.             *)
(***************************************************************************)
C3_NoDeniedVerbAccepted ==
  /\ (Returned /\ IsText /\ ContainsDeniedVerb(sql.text)) => ~verdict.ok
  /\ Accepted => ~ContainsDeniedVerb(verdict.sql)

\* A second statement with a denylisted verb, smuggled behind a semicolon
\* after a complete SELECT, has been rejected by the scan.
C3_Witness ==
  /\ Returned
  /\ IsText
  /\ \E i \in 2..Len(sql.text) :
        /\ sql.text[i] = ";"
        /\ ALLOWED_SELECT(SubSeq(sql.text, 1, i - 1))
        /\ ContainsDeniedVerb(SubSeq(sql.text, i + 1, Len(sql.text)))
  /\ verdict = Result(FALSE, <<>>, "forbidden_keyword")

(***************************************************************************)
(* C4.  A non-empty candidate is rejected as non_select_or_unsafe unless   *)
(* its stripped text starts with zero or more prefixes WITH <name> AS      *)
(* (...) immediately followed by SELECT.  Stated as in the specification;  *)
(* the lazy wildcards of ALLOWED_SELECT let any text stand between a       *)
(* prefix and the SELECT that completes the match.                         *)
(***************************************************************************)
C4_OnlyCtePrefixesBeforeSelect ==
  (Returned /\ IsText /\ sql.text # <<>> /\ verdict.reason # "non_select_or_unsafe")
  => StrictAnchor(Stripped, 1)

(***************************************************************************)
(* C5, as the specification states it.  Every candidate that contains a    *)
(* denylisted verb as a whole word is rejected with the reason             *)
(* forbidden_keyword.                                                      *)
(***************************************************************************)
C5_DeniedVerbIsForbiddenKeyword ==
  (Returned /\ IsText /\ ContainsDeniedVerb(sql.text))
  => verdict = Result(FALSE, <<>>, "forbidden_keyword")

(***************************************************************************)
(* C5, amended.  Every candidate that contains a denylisted verb as a      *)
(* whole word is rejected: with the reason forbidden_keyword when its      *)
(* stripped text passes the SELECT anchor, and with non_select_or_unsafe   *)
(* when it does not (the anchor is checked first).                         *)
(***************************************************************************)
C5_DeniedVerbRejectedByFirstFailingCheck ==
  (Returned /\ IsText /\ ContainsDeniedVerb(sql.text))
  => verdict = Result(FALSE, <<>>,
                      IF ALLOWED_SELECT(Stripped) THEN "forbidden_keyword"
                                                  ELSE "non_select_or_unsafe")

\* A candidate with a valid SELECT prefix and a denylisted verb in lower case
\* has been rejected as forbidden_keyword.
C5_Witness ==
  /\ Returned
  /\ IsText
  /\ ALLOWED_SELECT(Stripped)
  /\ \E i \in 1..Len(sql.text) : sql.text[i] \in LowerCase /\ Upper(sql.text[i]) \in ForbiddenSet
  /\ ContainsDeniedVerb(sql.text)
  /\ verdict.reason = "forbidden_keyword"

(***************************************************************************)
(* C6.  An input that is None, not a str, empty, whitespace only, or empty *)
(* once the artifacts are stripped is rejected with the reason empty_sql   *)
(* (the only reason that contains "empty").                                *)
(***************************************************************************)
C6_EmptyInputRejected ==
  (Returned /\ (~IsText \/ BlankOnceUnfenced(sql.text)))
  => (~verdict.ok /\ verdict.reason = "empty_sql")

(***************************************************************************)
(* C7.  Idempotence: sanitize_sql applied to a statement it has accepted   *)
(* accepts it and returns it unchanged.                                    *)
(***************************************************************************)
C7_Idempotent ==
  pc = "returned_again" => again = Result(TRUE, verdict.sql, "")

C9_ExistingLimitUntouched ==
  (Accepted /\ \E i \in LimitClauses(sql.text) : LimitValueAt(sql.text, i) <= default_limit)
  => /\ verdict.sql = Stripped
     /\ Cardinality(LimitClauses(verdict.sql)) = Cardinality(LimitClauses(sql.text))
     /\ {LimitValueAt(verdict.sql, i) : i \in LimitClauses(verdict.sql)}
          = {LimitValueAt(sql.text, i) : i \in LimitClauses(sql.text)}

\* A candidate with a lower-case "limit 9", within the cap 500, has been
\* accepted.
C9_Witness ==
  /\ Accepted
  /\ default_limit = DEFAULT_LIMIT
  /\ \E i \in LimitClauses(sql.text) : sql.text[i] = "limit" /\ LimitValueAt(sql.text, i) = 9
  /\ sql.text # verdict.sql

(***************************************************************************)
(* C10.  A SELECT statement that carries an SQL comment ("--" or a block   *)
(* comment) is rejected, as forbidden_keyword or non_select_or_unsafe.     *)
(***************************************************************************)
C10_CommentRejected ==
  (Returned /\ IsText /\ ALLOWED_SELECT(Stripped) /\ HasComment(sql.text))
  => (~verdict.ok /\ verdict.reason \in {"forbidden_keyword", "non_select_or_unsafe"})

(***************************************************************************)
(* C11.  Every verdict sanitize_sql returns, from the first call or from   *)
(* the call on its own output, has one meaningful field besides the flag:  *)
(* an accepting verdict carries a non-empty statement and the empty        *)
(* reason, a rejecting verdict the empty statement and a non-empty reason. *)
(***************************************************************************)
ErrorKinds == {"empty_sql", "non_select_or_unsafe", "forbidden_keyword"}

OneMeaningfulField(r) ==
  IF r.ok
  THEN r.sql # <<>> /\ r.reason = ""
  ELSE r.sql = <<>> /\ r.reason \in ErrorKinds

C11_OneMeaningfulField ==
  /\ Returned => OneMeaningfulField(verdict)
  /\ pc = "returned_again" => OneMeaningfulField(again)

\* A statement that got past the anchor has been rejected by the denylist.
C11_Witness ==
  /\ Returned /\ IsText
  /\ ALLOWED_SELECT(Stripped)
  /\ verdict = Result(FALSE, <<>>, "forbidden_keyword")

(***************************************************************************)
(* C12.  sanitize_sql never raises: a call on a str, on None or on a       *)
(* number ends by returning a verdict, and a value that is no statement    *)
(* comes back as a rejection.                                              *)
(***************************************************************************)
C12_NeverRaises ==
  /\ pc # "raised"
  /\ Returned => /\ verdict.ok \in BOOLEAN
                 /\ verdict.reason \in ErrorKinds \cup {""}
                 /\ (~IsText => ~verdict.ok)

\* The call on the number 123 has returned a rejection.
C12_Witness ==
  /\ Returned
  /\ sql = PyInt(123)
  /\ verdict = Result(FALSE, <<>>, "empty_sql")

(***************************************************************************)
(* C13.  The identifier validator answers true for a name exactly when the *)
(* name is a non-empty str, starts with a letter or an underscore,         *)
(* continues with letters, digits and underscores, and is no system or     *)
(* catalog name in any letter case.                                        *)
(***************************************************************************)
SystemNames == {"sqlite_master", "pg_tables", "information_schema"}

IsValidIdentifier(v) ==
  /\ v.kind = "str"
  /\ Len(v.text) >= 1
  /\ char(v.text, 1) \in (WordChars \ DigitSet)
  /\ \A i \in 1..Len(v.text) : char(v.text, i) \in WordChars
  /\ lower(v.text) \notin SystemNames

C13_ValidatorDecides ==
  vpc \notin {"idle", "start"}
  => valid = (IF IsValidIdentifier(name) THEN "true" ELSE "false")

(***************************************************************************)
(* Vocabulary of the properties of the router.                             *)
(***************************************************************************)
RouteReturned == rpc = "returned"

Meta == routed.metadata

TokenCount == Len(split(question))

\* The words of the question, letter case aside.
LowerTokens == {split(lower(question))[i] : i \in DOMAIN split(lower(question))}

Interrogatives == {"why", "how", "what", "when", "where", "who"}

HasInterrogativeWord == LowerTokens \cap Interrogatives # {}

\* An interrogative word occurs somewhere in the text, inside a longer word
\* or on its own.
HasInterrogativeLetters == \E w \in Interrogatives : contains(lower(question), w)

\* The decision policy: the number of the first rule that applies to the
\* scores s and c, the token count n and the interrogative test w.
FirstRule(s, c, n, w) ==
  IF s >= 3 /\ c <= 1 THEN 1
  ELSE IF c >= 3 /\ s <= 1 THEN 2
  ELSE IF n <= 5 /\ s > 0 THEN 3
  ELSE IF n >= 10 /\ w THEN 4
  ELSE IF s > c THEN 5
  ELSE IF c > s THEN 6
  ELSE 7

\* Category and confidence (in tenths) of the seven rules.
RuleOutcome ==
  << <<"SIMPLE", 9>>, <<"COMPLEX", 9>>, <<"SIMPLE", 8>>, <<"COMPLEX", 7>>,
     <<"SIMPLE", 6>>, <<"COMPLEX", 6>>, <<"SIMPLE", 5>> >>

Outcome == <<routed.type, Meta.confidence>>

(***************************************************************************)
(* C14.  The router returns category and confidence of the first rule of   *)
(* the decision policy that applies, rule 4 asking for at least 10 tokens  *)
(* and an interrogative word among them.                                   *)
(***************************************************************************)
C14_FirstApplicableRule ==
  RouteReturned
  => Outcome = RuleOutcome[FirstRule(Meta.simple_score, Meta.complex_score,
                                     TokenCount, HasInterrogativeWord)]

(***************************************************************************)
(* C15.  When none of the rules 1 to 3 applies, the router decides by rule *)
(* 4 exactly when the question has at least 10 tokens and one of its words *)
(* is an interrogative word.                                               *)
(***************************************************************************)
C15_Rule4ByWords ==
  (RouteReturned /\ FirstRule(Meta.simple_score, Meta.complex_score, TokenCount, FALSE) > 3)
  => ((Meta.reasoning = "Long analytical question")
        <=> (TokenCount >= 10 /\ HasInterrogativeWord))

(***************************************************************************)
(* C16.  The reported simple_score is the number of simple patterns that   *)
(* match the lower-cased question plus the number of distinct simple       *)
(* keywords among its tokens, and complex_score likewise.                  *)
(***************************************************************************)
MatchingPatterns(patterns, text) ==
  Cardinality({i \in DOMAIN patterns : re_search(patterns[i], text)})

DistinctKeywords(keywords) == Cardinality(keywords \cap LowerTokens)

C16_ScoreOfLoweredQuestion ==
  RouteReturned
  => /\ Meta.simple_score
          = MatchingPatterns(simple_patterns, lower(question)) + DistinctKeywords(simple_keywords)
     /\ Meta.complex_score
          = MatchingPatterns(complex_patterns, lower(question)) + DistinctKeywords(complex_keywords)

(***************************************************************************)
(* C16, amended.  The patterns are matched against the lower-cased         *)
(* question with its leading and trailing whitespace removed; the rest is  *)
(* as claimed: a repeated keyword or a pattern matching several times      *)
(* counts once.                                                            *)
(***************************************************************************)
C16_ScoreOfTrimmedQuestion ==
  RouteReturned
  => /\ Meta.simple_score
          = MatchingPatterns(simple_patterns, str_strip(lower(question)))
              + DistinctKeywords(simple_keywords)
     /\ Meta.complex_score
          = MatchingPatterns(complex_patterns, str_strip(lower(question)))
              + DistinctKeywords(complex_keywords)

\* A question that repeats a keyword, in two letter cases, has been scored.
C16_Witness ==
  /\ RouteReturned
  /\ question = " Total  total\ttrends? "
  /\ Meta.simple_score = 1

(***************************************************************************)
(* C17.  Every call of route_question returns a decision: its category is  *)
(* Simple or Complex, never AMBIGUOUS, and its confidence lies between 0   *)
(* and 1 (0 and 10 tenths).                                                *)
(***************************************************************************)
C17_TotalTwoCategories ==
  /\ rpc \in {"idle", "start", "returned"}
  /\ RouteReturned => /\ routed.type \in {"SIMPLE", "COMPLEX"}
                      /\ Meta.confidence \in 0..10

\* The call on the empty question has returned.
C17_Witness ==
  /\ RouteReturned
  /\ question = ""
  /\ routed.type = "SIMPLE"

(***************************************************************************)
(* C18.  Whenever simple_score equals complex_score the router returns     *)
(* Simple with confidence 0.5, and no decision has a lower confidence.     *)
(***************************************************************************)
Tie == Meta.simple_score = Meta.complex_score

C18_TieIsSimpleAtHalf ==
  RouteReturned
  => /\ Meta.confidence >= 5
     /\ Tie => Outcome = <<"SIMPLE", 5>>

(***************************************************************************)
(* C18, amended.  A tie is decided by rule 3 (Simple 0.8) when the         *)
(* question has at most 5 tokens and a positive simple_score, by rule 4    *)
(* (Complex 0.7) when it has at least 10 tokens and an interrogative word  *)
(* occurs in its text, and is Simple 0.5 otherwise; no decision has a      *)
(* confidence below 0.5.                                                   *)
(***************************************************************************)
C18_TieAfterRules3And4 ==
  RouteReturned
  => /\ Meta.confidence >= 5
     /\ Tie => Outcome =
                 IF TokenCount <= 5 /\ Meta.simple_score > 0 THEN <<"SIMPLE", 8>>
                 ELSE IF TokenCount >= 10 /\ HasInterrogativeLetters THEN <<"COMPLEX", 7>>
                 ELSE <<"SIMPLE", 5>>

\* A tie 1/1 of a 7-token question has been decided as Simple 0.5.
C18_Witness ==
  /\ RouteReturned
  /\ Meta.simple_score = 1 /\ Meta.complex_score = 1
  /\ TokenCount = 7
  /\ Outcome = <<"SIMPLE", 5>>

(***************************************************************************)
(* C19.  In a session of calls in any order, every call of route_question  *)
(* returns what the question alone determines, every call of sanitize_sql  *)
(* what candidate and cap alone determine, and the tables of the router    *)
(* stay as they were built.                                                *)
(***************************************************************************)
C19_StatelessCalls ==
  /\ router = QueryRouter
  /\ RouteReturned => routed = route_question(QueryRouter, question)
  /\ Returned => verdict = sanitize_sql(sql, default_limit)
  /\ pc = "returned_again" => again = sanitize_sql(PyStr(verdict.sql), default_limit)

\* Later calls of a session: a question has been routed, and the next
\* candidate waits while the session still holds the accepting verdict of
\* an earlier call of sanitize_sql on another candidate.
C19_Witness ==
  /\ RouteReturned
  /\ question = "what of in at by to on up it so we"
  /\ pc = "start"
  /\ verdict.ok
  /\ sql = PyStr(<<"DROP", " ", "x">>)

(***************************************************************************)
(* C20.  Under every interleaving of the threads, a call that has returned *)
(* holds the result the same call gives when it runs alone.                *)
(***************************************************************************)
ResultOf(t) ==
  IF tcall[t].op = "route"
  THEN Routed(tres[t].type, dicts[tres[t].ref])
  ELSE tres[t].verdict

AloneResult(c) ==
  IF c.op = "route"
  THEN route_question(QueryRouter, c.arg)
  ELSE sanitize_sql(c.arg, DEFAULT_LIMIT)

C20_ConcurrentCallsAsAlone ==
  /\ router = QueryRouter
  /\ \A t \in Threads : tpc[t] = "returned" => ResultOf(t) = AloneResult(tcall[t])

\* Two calls of route_question on different questions have overlapped:
\* thread 2 went from start to return while thread 1 was between its two
\* steps.
C20_Witness ==
  /\ tcall[1].op = "route" /\ tcall[2].op = "route"
  /\ tcall[1].arg # tcall[2].arg
  /\ tpc[1] = "scored"
  /\ tpc[2] = "returned"
  /\ dicts[tres[2].ref].confidence > 0

(***************************************************************************)
(* Vocabulary of the generation pipeline.                                  *)
(***************************************************************************)
LlmReturned == lpc = "returned"

GuardrailRan == guard # NoResult

(***************************************************************************)
(* C21.  get_sql_query returns a statement only if sanitize_sql accepted   *)
(* the candidate, the cleaned content of the answer; the statement         *)
(* returned is the one in the guardrail's verdict; when the guardrail      *)
(* rejects, the call returns None; and no call returns before the          *)
(* guardrail ran unless it returns None.                                   *)
(***************************************************************************)
C21_GuardrailBetweenAnswerAndCaller ==
  /\ ret.kind \in {"pending", "none", "str"}
  /\ ret.kind = "str" =>
        /\ LlmReturned
        /\ GuardrailRan
        /\ content.kind = "str"
        /\ guard = sanitize_sql(content, DEFAULT_LIMIT)
        /\ guard.ok
        /\ ret.text = guard.sql
  /\ (LlmReturned /\ GuardrailRan /\ ~guard.ok) => ret = PyNone
  /\ (LlmReturned /\ ~GuardrailRan) => ret = PyNone

\* An answer without a LIMIT clause has been accepted: the statement
\* returned is the guardrail's, with the default LIMIT, not the content.
C21_Witness ==
  /\ LlmReturned
  /\ guard.ok
  /\ ret.kind = "str"
  /\ ret.text = guard.sql
  /\ ret.text # content.text

\* An answer that passed the test of get_sql_query for a SELECT statement
\* has been rejected by the guardrail, and the call returned None.
C21_WitnessRejected ==
  /\ LlmReturned
  /\ GuardrailRan
  /\ ~guard.ok
  /\ ret = PyNone

(***************************************************************************)
(* C22.  The checks are applied in the order EmptyInput,                   *)
(* NonSelectOrUnsafe, ForbiddenKeyword, ExcessiveLimit, on the stripped    *)
(* candidate, and the first one that fails gives the reason of the         *)
(* rejection; a candidate is accepted when none fails.  Stated as in the   *)
(* specification; the code has no fourth check.                            *)
(***************************************************************************)
ExcessiveLimit(t, cap) == \E i \in LimitClauses(t) : LimitValueAt(t, i) > cap

FirstFailingCheck(v, cap) ==
  IF empty_sql(v) THEN "empty_sql"
  ELSE IF ~ALLOWED_SELECT(strip_artifacts(v.text)) THEN "non_select_or_unsafe"
  ELSE IF ContainsDeniedVerb(strip_artifacts(v.text)) THEN "forbidden_keyword"
  ELSE IF ExcessiveLimit(strip_artifacts(v.text), cap) THEN "excessive_limit"
  ELSE ""

C22_FirstFailingCheckDecides ==
  Returned =>
    /\ verdict.reason = FirstFailingCheck(sql, default_limit)
    /\ verdict.ok <=> FirstFailingCheck(sql, default_limit) = ""

(***************************************************************************)
(* Vocabulary of artifact stripping.  A candidate t is read as lead, kept  *)
(* text, trail: positions are counted between symbols, so that the kept    *)
(* text is SubSeq(t, i, j).                                                *)
(***************************************************************************)
\* The positions reached from one of P by going right over symbols of C.
RunRight(t, P, C) ==
  {q \in 1..(Len(t) + 1) : \E p \in P : p <= q /\ \A k \in p..(q - 1) : t[k] \in C}

\* The positions reached from one of P by going left over symbols of C.
RunLeft(t, P, C) ==
  {q \in 0..Len(t) : \E p \in P : q <= p /\ \A k \in (q + 1)..p : t[k] \in C}

\* The positions after a language-tag line that starts at one of P: the
\* word sql, blanks, a newline.
AfterTagLine(t, P) ==
  {q + 1 : q \in {r \in RunRight(t, {p + 1 : p \in {u \in P : u <= Len(t) /\ Upper(t[u]) = "SQL"}},
                                    Whitespace) : r <= Len(t) /\ t[r] = "\n"}}

\* Where the kept text may start: after blanks, backticks, one tag line
\* and blanks.
KeptFrom(t) ==
  LET fence == RunRight(t, RunRight(t, {1}, Whitespace), {"BQ"})
  IN  RunRight(t, fence \cup AfterTagLine(t, fence), Whitespace)

\* The positions before the closing fence: blanks and backticks at the end
\* of t are taken away.
BeforeFence(t) ==
  RunLeft(t, RunLeft(t, RunLeft(t, {Len(t)}, Whitespace), {"BQ"}), Whitespace)

\* Where the kept text may end when one statement terminator at most is
\* taken away before the fence.
KeptToOneTerminator(t) ==
  LET f == BeforeFence(t)
  IN  RunLeft(t, f \cup {q - 1 : q \in {r \in f : r >= 1 /\ t[r] = ";"}}, Whitespace)

\* Where the kept text may end when a run of statement terminators is
\* taken away before the fence.
KeptToAllTerminators(t) ==
  RunLeft(t, RunLeft(t, BeforeFence(t), {";"}), Whitespace)

\* out is s, or s with the clause LIMIT <cap> appended.
StatementOf(out, s, cap) ==
  \/ out = s
  \/ /\ Len(out) > Len(s) + 3
     /\ SubSeq(out, 1, Len(s)) = s
     /\ SubSeq(out, Len(s) + 1, Len(s) + 3) = <<" ", "LIMIT", " ">>
     /\ \A k \in (Len(s) + 4)..Len(out) : IsDigit(out[k])
     /\ DigitsValue(out, Len(s) + 4, 0) = cap

(***************************************************************************)
(* C23, as the specification states it.  The statement returned for an     *)
(* accepted candidate is the candidate without surrounding blanks and      *)
(* backticks, one leading language-tag line and one trailing semicolon at  *)
(* most, with nothing else altered but an appended LIMIT clause.           *)
(***************************************************************************)
C23_OneTerminatorRemoved ==
  Accepted =>
    \E i \in KeptFrom(sql.text), j \in KeptToOneTerminator(sql.text) :
       /\ i <= j + 1
       /\ StatementOf(verdict.sql, SubSeq(sql.text, i, j), default_limit)

(***************************************************************************)
(* C23, amended.  The statement returned for an accepted candidate is the  *)
(* candidate without surrounding blanks and backticks, one leading         *)
(* language-tag line and the whole run of semicolons at its end, with      *)
(* nothing else altered but an appended LIMIT clause: a semicolon that     *)
(* remains at the end of the kept text was followed by a blank.            *)
(***************************************************************************)
C23_TerminatorRunRemoved ==
  Accepted =>
    \E i \in KeptFrom(sql.text), j \in KeptToAllTerminators(sql.text) :
       /\ i <= j + 1
       /\ StatementOf(verdict.sql, SubSeq(sql.text, i, j), default_limit)
       /\ (j >= 1 /\ sql.text[j] = ";") => (j < Len(sql.text) /\ IsSpace(sql.text[j + 1]))

\* A candidate that ends in two semicolons has been accepted, and the
\* statement returned carries neither.
C23_Witness ==
  /\ Accepted
  /\ Len(sql.text) >= 2
  /\ sql.text[Len(sql.text)] = ";"
  /\ sql.text[Len(sql.text) - 1] = ";"
  /\ \A k \in 1..Len(verdict.sql) : verdict.sql[k] # ";"

(***************************************************************************)
(* C24.  should_use_agentic answers use_agentic = True exactly when the    *)
(* question routes to Complex with a confidence of at least                *)
(* confidence_threshold: a Complex route below the threshold and every     *)
(* Simple route answer False.  Stated as in the docstring ("Minimum        *)
(* confidence to use agentic system"); the code answers True for every     *)
(* Complex route.                                                          *)
(***************************************************************************)
AgenticReturned == apc = "returned"

C24_ThresholdIsMinimumConfidence ==
  AgenticReturned =>
    (agentic.use_agentic <=>
       (routed.type = "COMPLEX" /\ routed.metadata.confidence >= confidence_threshold))

(***************************************************************************)
(* Vocabulary of the upload flow.                                          *)
(***************************************************************************)
UploadFlow ==
  << SLACK_API_BASE \o "/files.getUploadURLExternal",
     "the upload URL",
     SLACK_API_BASE \o "/files.completeUploadExternal" >>

\* The request k of the flow came back with an HTTP status that is ok and,
\* for the two API methods, with ok=true in its document.
CallSucceeded(k) ==
  /\ k <= Len(replies)
  /\ replies[k].outcome = "ok"
  /\ k # 2 => (replies[k].doc.kind = "dict" /\ replies[k].doc.ok = "true")

UploadReturned == upc = "returned"

(***************************************************************************)
(* C25.  upload_file sends the requests of the flow in their order, each   *)
(* one only after every earlier one succeeded, the bytes to the URL of the *)
(* first reply; it returns (True, data) only after all three succeeded,    *)
(* with the document of the completion; without a bot token it sends       *)
(* nothing; and every failure comes back as (False, message), never as an  *)
(* exception.                                                              *)
(***************************************************************************)
C25_UploadFlowInOrder ==
  /\ Len(calls) <= 3
  /\ Len(replies) = Len(calls)
  /\ \A k \in 1..Len(calls) :
        /\ k # 2 => calls[k].target = UploadFlow[k]
        /\ k = 2 => calls[k].target = replies[1].doc.upload_url.text
        /\ \A m \in 1..(k - 1) : CallSucceeded(m)
  /\ uploaded.success =>
        /\ UploadReturned
        /\ Len(calls) = 3
        /\ \A m \in 1..3 : CallSucceeded(m)
        /\ uploaded.data = replies[3].doc
  /\ bot_token = "" => calls = <<>>
  /\ upc \in {"start", "got_url", "uploaded", "returned"}
  /\ (UploadReturned /\ ~(Len(calls) = 3 /\ \A m \in 1..3 : CallSucceeded(m))) =>
        (~uploaded.success /\ uploaded.message \notin {"", "pending"})

\* The upload of the bytes came back with an error status: the call has
\* returned (False, message) after two requests.
C25_Witness ==
  /\ UploadReturned
  /\ Len(calls) = 2
  /\ replies[2].outcome = "error_status"
  /\ ~uploaded.success
  /\ uploaded.message = "File upload failed: ratelimited"

(***************************************************************************)
(* Vocabulary of the session manager.                                      *)
(***************************************************************************)
\* The value of the most recent store for user u and type ty among the
\* first k calls of the log, since the last clear for u; None without one.
RECURSIVE LastStored(_, _, _)
LastStored(k, u, ty) ==
  IF k = 0 THEN NoneStr
  ELSE IF log[k].user = u /\ log[k].op = "clear" THEN NoneStr
  ELSE IF log[k].user = u /\ log[k].op = "store" /\ log[k].type = ty THEN Str(log[k].value[1])
  ELSE LastStored(k - 1, u, ty)

(***************************************************************************)
(* C26.  get_user_selection(u, t) returns the value of the most recent     *)
(* store for (u, t) since the last clear_user_session(u), or None;         *)
(* get_user_selections(u) returns that for the types X, Y and CSV; and no  *)
(* call raises, a clear for a user without a session included.             *)
(***************************************************************************)
C26_GetReturnsLastStore ==
  /\ got.op # "KeyError"
  /\ got.op = "get" => got.value = <<LastStored(Len(log), got.user, got.type)>>
  /\ got.op = "gets" =>
        got.value = << LastStored(Len(log), got.user, "X"),
                       LastStored(Len(log), got.user, "Y"),
                       LastStored(Len(log), got.user, "CSV") >>

\* A selection was stored, the session cleared, another type stored: the
\* read of the first type returns None.
C26_Witness ==
  /\ got.op = "get"
  /\ got.value = <<NoneStr>>
  /\ \E i, j, k \in 1..Len(log) :
        /\ i < j /\ j < k
        /\ log[i].op = "store" /\ log[i].user = got.user /\ log[i].type = got.type
        /\ log[j].op = "clear" /\ log[j].user = got.user
        /\ log[k].op = "store" /\ log[k].user = got.user /\ log[k].type # got.type

(***************************************************************************)
(* C27.  Once every concurrent call of store_user_selection has returned,  *)
(* each selection stored is present, unless another thread stored to the   *)
(* same user and type: two stores for one user without a session, with     *)
(* the types X and Y, leave both selections.  Stated as in the claim; the  *)
(* code takes no lock, and a thread that found no session replaces the     *)
(* dictionary another thread has just filled.                              *)
(***************************************************************************)
AllStoresReturned == \A th \in DOMAIN mpc : mpc[th] = "returned"

C27_NoLostSelection ==
  (mpc # <<>> /\ AllStoresReturned) =>
    \A a \in DOMAIN mcall :
       (\A b \in (DOMAIN mcall) \ {a} :
           mcall[b].user = mcall[a].user => mcall[b].type # mcall[a].type)
       => get_user_selection(Heap(sessions, objs), mcall[a].user, mcall[a].type)
            = Str(mcall[a].value[1])

(***************************************************************************)
(* Vocabulary of the frame of a call: the session of a user, if there is   *)
(* one, with its entries.                                                  *)
(***************************************************************************)
SessionIn(s, o, u) ==
  IF u \in DOMAIN s THEN [present |-> TRUE, entries |-> o[s[u]]]
  ELSE [present |-> FALSE, entries |-> EmptyDict]

EntryIn(s, o, u, ty) == dict_get(SessionIn(s, o, u).entries, ty)

TypeSet == {SelectionTypes[k] : k \in 1..Len(SelectionTypes)}

(***************************************************************************)
(* C28.  A call on the session manager for user u leaves the session of    *)
(* every other user as it was; a store changes the entry of its type only, *)
(* a clear removes the session of u, and a get changes nothing: it creates *)
(* no session for a user without one.                                      *)
(***************************************************************************)
C28_OnlyTheCalledUserChanges ==
  [][ /\ \A u \in Users \ {got'.user} :
            SessionIn(sessions', objs', u) = SessionIn(sessions, objs, u)
      /\ got'.op \in {"get", "gets"} =>
            SessionIn(sessions', objs', got'.user) = SessionIn(sessions, objs, got'.user)
      /\ got'.op = "store" =>
            /\ EntryIn(sessions', objs', got'.user, got'.type) = Str(got'.value[1])
            /\ \A ty \in TypeSet \ {got'.type} :
                  EntryIn(sessions', objs', got'.user, ty) = EntryIn(sessions, objs, got'.user, ty)
      /\ got'.op = "clear" => ~SessionIn(sessions', objs', got'.user).present
    ]_vars

\* A user without a session has been read while another user has one, and
\* has no session afterwards.
C28_Witness ==
  /\ got.op \in {"get", "gets"}
  /\ got.user \notin DOMAIN sessions
  /\ \E u \in Users \ {got.user} : SessionIn(sessions, objs, u).entries # EmptyDict

(***************************************************************************)
(* Vocabulary of pagination.                                               *)
(***************************************************************************)
\* The pages 1..n of the data, one after another.
RECURSIVE PagesUpTo(_)
PagesUpTo(n) ==
  IF n = 0 THEN <<>>
  ELSE PagesUpTo(n - 1) \o paginate_query_results(data, n, rows_per_page)

\* Both functions have returned for a non-empty list, rows_per_page >= 1
\* and a page number among the pages there are.
PageShown ==
  /\ ppc = "done"
  /\ Len(data) > 0
  /\ rows_per_page >= 1
  /\ 1 <= page_number
  /\ page_number <= info.total_pages

(***************************************************************************)
(* C29.  For a non-empty list, rows_per_page >= 1 and 1 <= page_number <=  *)
(* total_pages, the slice returned is the rows start_row..end_row of the   *)
(* pagination info, with 1 <= start_row <= end_row <= total_rows; the      *)
(* pages 1..total_pages one after another are the list; has_next holds     *)
(* iff page_number < total_pages; and previous_page and next_page lie in   *)
(* 1..total_pages.                                                         *)
(***************************************************************************)
C29_PagesAgreeWithInfo ==
  PageShown =>
    /\ info.total_rows = Len(data)
    /\ 1 <= info.start_row
    /\ info.start_row <= info.end_row
    /\ info.end_row <= info.total_rows
    /\ page = SubSeq(data, info.start_row, info.end_row)
    /\ PagesUpTo(info.total_pages) = data
    /\ info.has_next <=> page_number < info.total_pages
    /\ info.previous_page \in 1..info.total_pages
    /\ info.next_page \in 1..info.total_pages

\* The last of several pages has been shown, and it is not full.
C29_Witness ==
  /\ PageShown
  /\ info.total_pages > 1
  /\ page_number = info.total_pages
  /\ Len(page) < rows_per_page
  /\ page # <<>>
  /\ ~info.has_next

(***************************************************************************)
(* Vocabulary of the failures of the generation pipeline.                  *)
(***************************************************************************)
\* The document of the response is no JSON, no object, or holds no str as
\* the content of its message.
MalformedBody(b) == b.json # "dict" \/ b.message # "dict" \/ b.content.kind # "str"

\* The cleaned answer does not open with SELECT or WITH.
NonSelectAnswer ==
  /\ content.kind = "str"
  /\ content.text = <<>> \/ Upper(content.text[1]) \notin {"SELECT", "WITH"}

LlmFailure ==
  \/ response.outcome \in {"network_error", "http_error"}
  \/ MalformedBody(response.body)
  \/ NonSelectAnswer
  \/ GuardrailRan /\ ~guard.ok

(***************************************************************************)
(* C30.  get_sql_query never raises; with an empty question or schema it   *)
(* returns None and sends no request; and after a network error, an HTTP   *)
(* error status, a malformed body, an answer that is no SELECT statement   *)
(* or a rejection by the guardrail it returns None.                        *)
(***************************************************************************)
C30_NeverRaisesFailsClosed ==
  /\ lpc \in {"start", "responded", "guardrail", "returned"}
  /\ posted <= 1
  /\ (llm_question = "" \/ schema = "") =>
        /\ posted = 0
        /\ response = NoResponse
        /\ LlmReturned => ret = PyNone
  /\ (LlmReturned /\ posted = 1 /\ LlmFailure) => ret = PyNone

\* A response whose document is no object made the extraction raise, and
\* the call returned None.
C30_Witness ==
  /\ LlmReturned
  /\ posted = 1
  /\ response.outcome = "ok"
  /\ response.body.json = "list"
  /\ ret = PyNone
====
